---------------------------- MODULE Spec2Model ----------------------------
(***************************************************************************)
(* Picker-Scheduler: the persisted state (schedules, shifts, shift swaps)  *)
(* and the handlers that mutate it, as a state machine.                    *)
(*                                                                         *)
(* Conventions.                                                            *)
(*   - A table is a function from the ids of its rows to records.          *)
(*   - NULL (None) is 0; row ids, user ids and dates start at 1.           *)
(*   - A date is a day number, day 1 being a Monday.  datetime stamps      *)
(*     (published_at, approved_at, callout_time) are kept at day           *)
(*     granularity: the value of `today` when the handler ran.             *)
(*   - Wall-clock times are whole hours, break_minutes are minutes, and    *)
(*     hour totals are compared in minutes, so 7.5 h is 450.               *)
(*   - Every handler call is one step.  `last` records the call and its    *)
(*     outcome: "ok", or the HTTP status of the HTTPException raised.      *)
(*   - Notifications are write-only rows that no handler reads back; they  *)
(*     are not part of the modelled state.                                 *)
(***************************************************************************)
EXTENDS Integers, Sequences, FiniteSets, TLC

VARIABLES
    schedules,      \* schedules table: id -> Schedule row
    shifts,         \* shifts table: id -> Shift row
    swaps,          \* shift_swaps table: id -> ShiftSwap row
    schedule_seq,   \* last id handed out by schedules.id
    shift_seq,      \* last id handed out by shifts.id
    swap_seq,       \* last id handed out by shift_swaps.id
    today,          \* the current date (date.today(), datetime.utcnow())
    historical_orders,  \* historical_orders table: a set of rows
    order_forecasts,    \* order_forecasts table: a set of rows
    swap_requester, \* history: swap id -> the employee whose create call made it
    sessions,       \* the open database transaction of each concurrent request
    last            \* the last handler call and its outcome

vars == <<schedules, shifts, swaps, schedule_seq, shift_seq, swap_seq, today,
          historical_orders, order_forecasts, swap_requester, sessions, last>>

\* the tables of the demand forecaster
forecast_db == <<historical_orders, order_forecasts>>

db == <<schedules, shifts, swaps, schedule_seq, shift_seq, swap_seq>>

NULL == 0

-----------------------------------------------------------------------------
(* Bounds of the model *)

MaxSchedules == 2   \* schedule ids handed out
MaxShifts == 2      \* shift ids handed out
MaxSwaps == 2       \* swap ids handed out
MaxDay == 2         \* last value of today
MaxCalloutSwaps == 1
MaxApplied == 4  \* swaps created beside the call-outs

-----------------------------------------------------------------------------
(* Configuration and seeded reference rows *)

max_hours_per_week == 44
max_hours_per_day == 8
days_on_per_week == 6
break_minutes_8hr_shift == 30
break_minutes_9hr_shift == 60
MAX_WEEKLY_HOURS == 44

Stores == {1, 2}

\* employees table: pickers 1, 2, 3, 5 and 6 in store 1 (3 is inactive) and
\* picker 4 in store 2.  Employee e is linked to user e (employees.user_id is
\* unique).
Employees == {1, 2, 3, 4, 5, 6}

EmployeeStore(e) == IF e = 4 THEN 2 ELSE 1

EmployeeStatus(e) == IF e = 3 THEN "inactive" ELSE "active"

\* A user with the manager role and no employee row.
ManagerUser == 9

Users == Employees \cup {ManagerUser}

\* get_employee_for_user: the employee row of a user, NULL when there is none.
get_employee_for_user(u) == IF u \in Employees THEN u ELSE NULL

\* time_off_requests: employee 2 has an approved request covering day 2,
\* employee 4 one covering day 3.
ApprovedTimeOff(e, d) == (e = 2 /\ d = 2) \/ (e = 4 /\ d = 3)

\* availability: employee 1 has a row is_available = false for Tuesdays,
\* employee 4 has such rows for Thursday to Sunday.
Unavailable(e, dow) == (e = 1 /\ dow = 1) \/ (e = 4 /\ dow >= 3)

\* stores.operating_start / operating_end, in hours: store 1 keeps the column
\* defaults, store 2 closes at 17.
operating_start(store_id) == 8

operating_end(store_id) == IF store_id = 2 THEN 16 ELSE 22

Weekday(d) == (d - 1) % 7

\* get_week_start: the Monday of the week containing d.
get_week_start(d) == d - Weekday(d)

-----------------------------------------------------------------------------
(* Table helpers *)

EmptyTable == [i \in {} |-> NULL]

Insert(t, k, row) == [i \in (DOMAIN t) \cup {k} |-> IF i = k THEN row ELSE t[i]]

Remove(t, ks) == [i \in (DOMAIN t) \ ks |-> t[i]]

Call(op, id, n, validate, force, res) ==
    [op |-> op, id |-> id, n |-> n, validate |-> validate, force |-> force, res |-> res]

ShiftsOfSchedule(S, schedule_id) == {i \in DOMAIN S : S[i].schedule_id = schedule_id}

\* A new Shift row: the column defaults of models/shift.py.
NewShift(schedule_id, sd) ==
    [schedule_id |-> schedule_id,
     employee_id |-> sd.employee_id,
     date |-> sd.date,
     start_time |-> sd.start_time,
     end_time |-> sd.end_time,
     break_minutes |-> sd.break_minutes,
     status |-> "scheduled",
     callout_reason |-> NULL,
     callout_time |-> NULL,
     original_employee_id |-> NULL,
     covered_by_id |-> NULL]

\* Deleting shift rows: shift_swaps.requester_shift_id is ON DELETE CASCADE,
\* shift_swaps.requested_shift_id is ON DELETE SET NULL.
SwapsAfterShiftDelete(W, ids) ==
    [w \in {x \in DOMAIN W : W[x].requester_shift_id \notin ids} |->
        IF W[w].requested_shift_id \in ids
        THEN [W[w] EXCEPT !.requested_shift_id = NULL]
        ELSE W[w]]

-----------------------------------------------------------------------------
(* Compliance engine *)

\* Shift.duration_hours / _get_shift_duration_hours, in minutes.
DurationMinutes(s) == (s.end_time - s.start_time) * 60 - s.break_minutes

\* Shift.total_hours / _get_shift_total_hours, in hours.
TotalHours(s) == s.end_time - s.start_time

RECURSIVE SumMinutes(_, _)
SumMinutes(S, ids) ==
    IF ids = {} THEN 0
    ELSE LET i == CHOOSE x \in ids : TRUE
         IN DurationMinutes(S[i]) + SumMinutes(S, ids \ {i})

RECURSIVE SumSeqMinutes(_)
SumSeqMinutes(q) ==
    IF q = <<>> THEN 0 ELSE DurationMinutes(Head(q)) + SumSeqMinutes(Tail(q))

InWeek(d, week_start) == d >= week_start /\ d <= week_start + 6

SelectSeq2(q, week_start) == SelectSeq(q, LAMBDA s : InWeek(s.date, week_start))

Finding(type, severity, employee_id, date) ==
    [type |-> type, severity |-> severity, employee_id |-> employee_id, date |-> date]

\* proposed is the sequence of proposed (unpersisted) shifts, <<>> when absent.
validate_weekly_hours(S, employee_id, week_start, proposed) ==
    LET existing == {i \in DOMAIN S : S[i].employee_id = employee_id
                                      /\ InWeek(S[i].date, week_start)}
        total == SumMinutes(S, existing) + SumSeqMinutes(SelectSeq2(proposed, week_start))
    IN IF total > max_hours_per_week * 60
       THEN {Finding("weekly_hours_exceeded", "error", employee_id, NULL)}
       ELSE IF total > (max_hours_per_week - 4) * 60
       THEN {Finding("weekly_hours_exceeded", "warning", employee_id, NULL)}
       ELSE {}

validate_daily_hours(S, employee_id, target_date, proposed) ==
    LET existing == {i \in DOMAIN S : S[i].employee_id = employee_id
                                      /\ S[i].date = target_date}
        total == SumMinutes(S, existing)
                 + SumSeqMinutes(SelectSeq(proposed, LAMBDA s : s.date = target_date))
    IN IF total > max_hours_per_day * 60
       THEN {Finding("daily_hours_exceeded", "error", employee_id, target_date)}
       ELSE {}

validate_consecutive_days(S, employee_id, week_start, proposed) ==
    LET existing == {i \in DOMAIN S : S[i].employee_id = employee_id
                                      /\ InWeek(S[i].date, week_start)}
        work_dates == {S[i].date : i \in existing}
                      \cup {proposed[k].date : k \in {j \in DOMAIN proposed :
                                                        InWeek(proposed[j].date, week_start)}}
    IN IF Cardinality(work_dates) > days_on_per_week
       THEN {Finding("consecutive_days_exceeded", "error", employee_id, NULL)}
       ELSE {}

get_required_break_minutes(shift_hours) ==
    IF shift_hours >= 9 THEN break_minutes_9hr_shift
    ELSE IF shift_hours >= 8 THEN break_minutes_8hr_shift
    ELSE 0

validate_break_requirements(s) ==
    IF s.break_minutes < get_required_break_minutes(TotalHours(s))
    THEN {Finding("insufficient_break", "error", s.employee_id, s.date)}
    ELSE {}

validate_time_off_conflicts(employee_id, target_date) ==
    IF ApprovedTimeOff(employee_id, target_date)
    THEN {Finding("time_off_conflict", "error", employee_id, target_date)}
    ELSE {}

\* validate_availability reporting the conflict with severity error.
validate_availability_as_error(employee_id, target_date) ==
    IF Unavailable(employee_id, Weekday(target_date))
    THEN {Finding("availability_conflict", "error", employee_id, target_date)}
    ELSE {}

validate_availability(employee_id, target_date) ==
    IF Unavailable(employee_id, Weekday(target_date))
    THEN {Finding("availability_conflict", "warning", employee_id, target_date)}
    ELSE {}

\* The findings of validate_schedule after deduplication by (type, employee,
\* date); two findings with the same key always carry the same severity.
validate_schedule(C, S, schedule_id) ==
    IF schedule_id \notin DOMAIN C
    THEN {Finding("weekly_hours_exceeded", "error", 0, NULL)}
    ELSE LET week_start == C[schedule_id].week_start_date
             mine == ShiftsOfSchedule(S, schedule_id)
             emps == {S[i].employee_id : i \in mine}
         IN UNION {validate_weekly_hours(S, e, week_start, <<>>)
                   \cup validate_consecutive_days(S, e, week_start, <<>>) : e \in emps}
            \cup UNION {validate_daily_hours(S, S[i].employee_id, S[i].date, <<>>)
                        \cup validate_break_requirements(S[i])
                        \cup validate_time_off_conflicts(S[i].employee_id, S[i].date)
                        \cup validate_availability(S[i].employee_id, S[i].date) : i \in mine}

Errors(findings) == {v \in findings : v.severity = "error"}

Warnings(findings) == {v \in findings : v.severity = "warning"}

\* ComplianceResult.is_compliant
is_compliant(findings) == Errors(findings) = {}

-----------------------------------------------------------------------------
(* Requests that run concurrently, each in its own database transaction *)

Sessions == {1, 2}

\* A request that has not begun; the fields hold what apply_schedule keeps
\* between its statements.
IdleSession ==
    [pc |-> "idle", store_id |-> NULL, week_start |-> NULL, shift_list |-> <<>>,
     created_by |-> NULL, schedule |-> NULL, created |-> FALSE,
     targets |-> {}, deleted |-> {}]

-----------------------------------------------------------------------------
(* Initial state: empty tables *)

Init ==
    /\ schedules = EmptyTable
    /\ shifts = EmptyTable
    /\ swaps = EmptyTable
    /\ schedule_seq = 0
    /\ shift_seq = 0
    /\ swap_seq = 0
    /\ today = 1
    /\ historical_orders = {}
    /\ order_forecasts = {}
    /\ swap_requester = EmptyTable
    /\ sessions = [p \in Sessions |-> IdleSession]
    /\ last = Call("init", NULL, NULL, FALSE, FALSE, "ok")

\* The calendar advances.
NextDay ==
    /\ today < MaxDay
    /\ today' = today + 1
    /\ last' = Call("next_day", NULL, NULL, FALSE, FALSE, "ok")
    /\ UNCHANGED <<db, forecast_db, swap_requester, sessions>>

-----------------------------------------------------------------------------
(* Schedule handlers *)

create_schedule(store_id, week_start_date, user) ==
    /\ schedule_seq < MaxSchedules
    /\ LET existing == {i \in DOMAIN schedules :
                          /\ schedules[i].store_id = store_id
                          /\ schedules[i].week_start_date = week_start_date}
       IN IF existing # {}
          THEN /\ last' = Call("create_schedule", NULL, store_id, FALSE, FALSE, "400")
               /\ UNCHANGED <<db, today, forecast_db, swap_requester, sessions>>
          ELSE /\ schedules' = Insert(schedules, schedule_seq + 1,
                                      [store_id |-> store_id,
                                       week_start_date |-> week_start_date,
                                       status |-> "draft",
                                       created_by |-> user,
                                       published_at |-> NULL])
               /\ schedule_seq' = schedule_seq + 1
               /\ last' = Call("create_schedule", schedule_seq + 1, store_id, FALSE, FALSE, "ok")
               /\ UNCHANGED <<shifts, swaps, shift_seq, swap_seq, today, forecast_db, swap_requester, sessions>>

\* The shift rows apply_schedule inserts for schedule_id, ids first+1 ..
InsertShifts(S, schedule_id, first, shift_list) ==
    [i \in (DOMAIN S) \cup {first + k : k \in 1..Len(shift_list)} |->
        IF i \in DOMAIN S THEN S[i] ELSE NewShift(schedule_id, shift_list[i - first])]

\* ScheduleOptimizer.apply_schedule.  The draft query has no ORDER BY: with
\* several drafts for the week any of them may be the .first() row.
apply_schedule_rows(store_id, week_start, shift_list, created_by) ==
    /\ LET drafts == {i \in DOMAIN schedules :
                        /\ schedules[i].store_id = store_id
                        /\ schedules[i].week_start_date = week_start
                        /\ schedules[i].status = "draft"}
       IN IF drafts # {}
          THEN \E sch \in drafts :
                 LET old == ShiftsOfSchedule(shifts, sch)
                 IN /\ shifts' = InsertShifts(Remove(shifts, old), sch, shift_seq, shift_list)
                    /\ swaps' = SwapsAfterShiftDelete(swaps, old)
                    /\ shift_seq' = shift_seq + Len(shift_list)
                    /\ last' = Call("apply_schedule", sch, store_id, FALSE, FALSE, "ok")
                    /\ UNCHANGED <<schedules, schedule_seq, swap_seq, today, forecast_db, swap_requester, sessions>>
          ELSE /\ schedule_seq < MaxSchedules
               /\ schedules' = Insert(schedules, schedule_seq + 1,
                                      [store_id |-> store_id,
                                       week_start_date |-> week_start,
                                       status |-> "draft",
                                       created_by |-> created_by,
                                       published_at |-> NULL])
               /\ schedule_seq' = schedule_seq + 1
               /\ shifts' = InsertShifts(shifts, schedule_seq + 1, shift_seq, shift_list)
               /\ shift_seq' = shift_seq + Len(shift_list)
               /\ last' = Call("apply_schedule", schedule_seq + 1, store_id, FALSE, FALSE, "ok")
               /\ UNCHANGED <<swaps, swap_seq, today, forecast_db, swap_requester, sessions>>

\* apply_schedule while the shift ids stay within MaxShifts.
apply_schedule(store_id, week_start, shift_list, created_by) ==
    /\ shift_seq + Len(shift_list) <= MaxShifts
    /\ apply_schedule_rows(store_id, week_start, shift_list, created_by)

\* publish_result with force overriding errors as well as warnings.
publish_result_force_overrides_errors(schedule_id, validate, force) ==
    IF schedule_id \notin DOMAIN schedules THEN "404"
    ELSE IF schedules[schedule_id].status = "published" THEN "400"
    ELSE IF ShiftsOfSchedule(shifts, schedule_id) = {} THEN "400"
    ELSE LET result == validate_schedule(schedules, shifts, schedule_id)
         IN IF validate /\ ~is_compliant(result) /\ ~force THEN "422"
            ELSE IF validate /\ Warnings(result) # {} /\ ~force THEN "409"
            ELSE "ok"

\* The outcome of publish_schedule before any write.
publish_result(schedule_id, validate, force) ==
    IF schedule_id \notin DOMAIN schedules THEN "404"
    ELSE IF schedules[schedule_id].status = "published" THEN "400"
    ELSE IF ShiftsOfSchedule(shifts, schedule_id) = {} THEN "400"
    ELSE LET result == validate_schedule(schedules, shifts, schedule_id)
         IN IF validate /\ ~is_compliant(result) THEN "422"
            ELSE IF validate /\ Warnings(result) # {} /\ ~force THEN "409"
            ELSE "ok"

publish_schedule(schedule_id, validate, force) ==
    LET res == publish_result(schedule_id, validate, force)
    IN /\ last' = Call("publish_schedule", schedule_id, NULL, validate, force, res)
       /\ IF res = "ok"
          THEN /\ schedules' = [schedules EXCEPT ![schedule_id].status = "published",
                                                 ![schedule_id].published_at = today]
               /\ UNCHANGED <<shifts, swaps, schedule_seq, shift_seq, swap_seq, today, forecast_db, swap_requester, sessions>>
          ELSE UNCHANGED <<db, today, forecast_db, swap_requester, sessions>>

unpublish_result(schedule_id) ==
    IF schedule_id \notin DOMAIN schedules THEN "404"
    ELSE IF schedules[schedule_id].status # "published" THEN "400"
    ELSE "ok"

\* unpublish_schedule that leaves published_at as it is.
unpublish_schedule_keeps_published_at(schedule_id) ==
    LET res == unpublish_result(schedule_id)
    IN /\ last' = Call("unpublish_schedule", schedule_id, NULL, FALSE, FALSE, res)
       /\ IF res = "ok"
          THEN /\ schedules' = [schedules EXCEPT ![schedule_id].status = "draft"]
               /\ UNCHANGED <<shifts, swaps, schedule_seq, shift_seq, swap_seq, today, forecast_db, swap_requester, sessions>>
          ELSE UNCHANGED <<db, today, forecast_db, swap_requester, sessions>>

unpublish_schedule(schedule_id) ==
    LET res == unpublish_result(schedule_id)
    IN /\ last' = Call("unpublish_schedule", schedule_id, NULL, FALSE, FALSE, res)
       /\ IF res = "ok"
          THEN /\ schedules' = [schedules EXCEPT ![schedule_id].status = "draft",
                                                 ![schedule_id].published_at = NULL]
               /\ UNCHANGED <<shifts, swaps, schedule_seq, shift_seq, swap_seq, today, forecast_db, swap_requester, sessions>>
          ELSE UNCHANGED <<db, today, forecast_db, swap_requester, sessions>>

\* delete_schedule_result without the published check.
delete_schedule_result_no_status_check(schedule_id) ==
    IF schedule_id \notin DOMAIN schedules THEN "404" ELSE "ok"

delete_schedule_result(schedule_id) ==
    IF schedule_id \notin DOMAIN schedules THEN "404"
    ELSE IF schedules[schedule_id].status = "published" THEN "400"
    ELSE "ok"

\* db.delete(schedule): Schedule.shifts cascades "all, delete-orphan".
delete_schedule(schedule_id) ==
    LET res == delete_schedule_result(schedule_id)
    IN /\ last' = Call("delete_schedule", schedule_id, NULL, FALSE, FALSE, res)
       /\ IF res = "ok"
          THEN LET old == ShiftsOfSchedule(shifts, schedule_id)
               IN /\ schedules' = Remove(schedules, {schedule_id})
                  /\ shifts' = Remove(shifts, old)
                  /\ swaps' = SwapsAfterShiftDelete(swaps, old)
                  /\ UNCHANGED <<schedule_seq, shift_seq, swap_seq, today, forecast_db, swap_requester, sessions>>
          ELSE UNCHANGED <<db, today, forecast_db, swap_requester, sessions>>

-----------------------------------------------------------------------------
(* Call-out handlers *)

\* get_employee_week_hours, in minutes: only scheduled and covered shifts.
get_employee_week_hours(S, employee_id, week_start) ==
    SumMinutes(S, {i \in DOMAIN S : /\ S[i].employee_id = employee_id
                                    /\ S[i].date >= week_start
                                    /\ S[i].date <= week_start + 6
                                    /\ S[i].status \in {"scheduled", "covered"}})

\* mark_callout without its status check.
mark_callout_result_any_status(shift_id) ==
    IF shift_id \notin DOMAIN shifts THEN "404" ELSE "ok"

mark_callout_result(shift_id) ==
    IF shift_id \notin DOMAIN shifts THEN "404"
    ELSE IF shifts[shift_id].status # "scheduled" THEN "400"
    ELSE "ok"

mark_callout(shift_id, reason) ==
    LET res == mark_callout_result(shift_id)
    IN /\ last' = Call("mark_callout", shift_id, reason, FALSE, FALSE, res)
       /\ IF res = "ok"
          THEN /\ shifts' = [shifts EXCEPT
                               ![shift_id].status = "called_out",
                               ![shift_id].callout_reason = reason,
                               ![shift_id].callout_time = today,
                               ![shift_id].original_employee_id = shifts[shift_id].employee_id]
               /\ UNCHANGED <<schedules, swaps, schedule_seq, shift_seq, swap_seq, today, forecast_db, swap_requester, sessions>>
          ELSE UNCHANGED <<db, today, forecast_db, swap_requester, sessions>>

\* assign_replacement without its check of the employee's status.
assign_replacement_result_no_active_check(shift_id, replacement_employee_id, force) ==
    IF shift_id \notin DOMAIN shifts THEN "404"
    ELSE IF shifts[shift_id].status # "called_out" THEN "400"
    ELSE IF replacement_employee_id \notin Employees THEN "404"
    ELSE IF EmployeeStore(replacement_employee_id)
            # schedules[shifts[shift_id].schedule_id].store_id THEN "400"
    ELSE "ok"

\* The outcome of assign_replacement before any write.
assign_replacement_result(shift_id, replacement_employee_id, force) ==
    IF shift_id \notin DOMAIN shifts THEN "404"
    ELSE IF shifts[shift_id].status # "called_out" THEN "400"
    ELSE IF replacement_employee_id \notin Employees THEN "404"
    ELSE IF EmployeeStore(replacement_employee_id)
            # schedules[shifts[shift_id].schedule_id].store_id THEN "400"
    ELSE IF EmployeeStatus(replacement_employee_id) # "active" THEN "400"
    ELSE LET shift_hours == DurationMinutes(shifts[shift_id])
             week_start == get_week_start(shifts[shift_id].date)
             current_hours == get_employee_week_hours(shifts, replacement_employee_id,
                                                      week_start)
         IN IF current_hours + shift_hours > MAX_WEEKLY_HOURS * 60 /\ ~force THEN "409"
            ELSE "ok"

\* The shift row assign_replacement writes.
assign_replacement_row(s, replacement_employee_id) ==
    [s EXCEPT !.status = "covered",
              !.employee_id = replacement_employee_id,
              !.covered_by_id = replacement_employee_id,
              !.original_employee_id = IF s.original_employee_id = NULL
                                       THEN s.employee_id
                                       ELSE s.original_employee_id]

assign_replacement(shift_id, replacement_employee_id, force) ==
    LET res == assign_replacement_result(shift_id, replacement_employee_id, force)
    IN /\ last' = Call("assign_replacement", shift_id, replacement_employee_id,
                       FALSE, force, res)
       /\ IF res = "ok"
          THEN /\ shifts' = [shifts EXCEPT ![shift_id] =
                               assign_replacement_row(shifts[shift_id],
                                                      replacement_employee_id)]
               /\ UNCHANGED <<schedules, swaps, schedule_seq, shift_seq, swap_seq, today, forecast_db, swap_requester, sessions>>
          ELSE UNCHANGED <<db, today, forecast_db, swap_requester, sessions>>

\* revert_callout without its check for a covered shift.
revert_callout_result_allows_covered(shift_id) ==
    IF shift_id \notin DOMAIN shifts THEN "404"
    ELSE IF shifts[shift_id].status \notin {"called_out", "covered"} THEN "400"
    ELSE "ok"

revert_callout_result(shift_id) ==
    IF shift_id \notin DOMAIN shifts THEN "404"
    ELSE IF shifts[shift_id].status = "covered" THEN "400"
    ELSE IF shifts[shift_id].status # "called_out" THEN "400"
    ELSE "ok"

\* revert_callout restoring the employee without clearing
\* original_employee_id.
revert_callout_row_keeps_original(s) ==
    [s EXCEPT !.status = "scheduled",
              !.callout_reason = NULL,
              !.callout_time = NULL,
              !.employee_id = IF s.original_employee_id # NULL
                              THEN s.original_employee_id
                              ELSE s.employee_id,
              !.covered_by_id = NULL]

\* The shift row revert_callout writes.
revert_callout_row(s) ==
    [s EXCEPT !.status = "scheduled",
              !.callout_reason = NULL,
              !.callout_time = NULL,
              !.employee_id = IF s.original_employee_id # NULL
                              THEN s.original_employee_id
                              ELSE s.employee_id,
              !.original_employee_id = NULL,
              !.covered_by_id = NULL]

revert_callout(shift_id) ==
    LET res == revert_callout_result(shift_id)
    IN /\ last' = Call("revert_callout", shift_id, NULL, FALSE, FALSE, res)
       /\ IF res = "ok"
          THEN /\ shifts' = [shifts EXCEPT ![shift_id] = revert_callout_row(shifts[shift_id])]
               /\ UNCHANGED <<schedules, swaps, schedule_seq, shift_seq, swap_seq, today, forecast_db, swap_requester, sessions>>
          ELSE UNCHANGED <<db, today, forecast_db, swap_requester, sessions>>

\* round(x, 1) of a number of hours given in minutes, in tenths of an hour.
\* A tie (an odd multiple of 3 minutes) goes to the even tenth.
round_tenths(minutes) ==
    LET q == minutes \div 6
        r == minutes % 6
    IN IF r < 3 THEN q
       ELSE IF r > 3 THEN q + 1
       ELSE IF q % 2 = 0 THEN q ELSE q + 1

\* The ReplacementCandidate row find_replacements builds for employee emp.
replacement_candidate(S, shift_id, emp) ==
    LET shift_date == S[shift_id].date
        shift_hours == DurationMinutes(S[shift_id])
        week_start == get_week_start(shift_date)
        existing_shift == {i \in DOMAIN S : /\ S[i].employee_id = emp
                                            /\ S[i].date = shift_date
                                            /\ S[i].status \in {"scheduled", "covered"}
                                            /\ i # shift_id}
        current_week_hours == get_employee_week_hours(S, emp, week_start)
        remaining_hours == MAX_WEEKLY_HOURS * 60 - current_week_hours
    IN [employee_id |-> emp,
        is_available |-> /\ existing_shift = {}
                         /\ ~ApprovedTimeOff(emp, shift_date)
                         /\ ~Unavailable(emp, Weekday(shift_date))
                         /\ ~(current_week_hours + shift_hours > MAX_WEEKLY_HOURS * 60),
        current_week_hours |-> round_tenths(current_week_hours),
        remaining_hours |-> round_tenths(IF remaining_hours > 0 THEN remaining_hours ELSE 0)]

\* A sort key without the availability flag.
candidate_key_less_hours_only(a, b) == a.remaining_hours > b.remaining_hours

\* The sort key (not x.is_available, -x.remaining_hours), compared as tuples.
candidate_key_less(a, b) ==
    \/ a.is_available /\ ~b.is_available
    \/ a.is_available = b.is_available /\ a.remaining_hours > b.remaining_hours

\* list.sort is stable: c goes behind every element whose key is not greater.
RECURSIVE insert_candidate(_, _)
insert_candidate(q, c) ==
    IF q = <<>> THEN <<c>>
    ELSE IF candidate_key_less(c, Head(q)) THEN <<c>> \o q
    ELSE <<Head(q)>> \o insert_candidate(Tail(q), c)

RECURSIVE sort_candidates(_)
sort_candidates(q) ==
    IF q = <<>> THEN <<>>
    ELSE insert_candidate(sort_candidates(SubSeq(q, 1, Len(q) - 1)), q[Len(q)])

\* The employees the query of find_replacements selects.
replacement_employees(S, shift_id) ==
    LET excluded == IF S[shift_id].original_employee_id # NULL
                    THEN S[shift_id].original_employee_id
                    ELSE S[shift_id].employee_id
    IN {e \in Employees : /\ EmployeeStore(e) = schedules[S[shift_id].schedule_id].store_id
                          /\ EmployeeStatus(e) = "active"
                          /\ e # excluded}

find_replacements_result(shift_id) ==
    IF shift_id \notin DOMAIN shifts THEN "404"
    ELSE IF shifts[shift_id].status \notin {"called_out", "scheduled"} THEN "400"
    ELSE "ok"

\* All orders of a set, as sequences without repetition.
Orders(T) == {q \in [1..Cardinality(T) -> T] : \A i, j \in DOMAIN q : i # j => q[i] # q[j]}

\* GET /{shift_id}/replacements.  The employee query has no ORDER BY: the
\* rows come in any order.  The list returned is kept in last.n.
find_replacements(shift_id) ==
    LET res == find_replacements_result(shift_id)
    IN /\ IF res = "ok"
          THEN \E employees \in Orders(replacement_employees(shifts, shift_id)) :
                 last' = Call("find_replacements", shift_id,
                              sort_candidates([k \in DOMAIN employees |->
                                  replacement_candidate(shifts, shift_id, employees[k])]),
                              FALSE, FALSE, res)
          ELSE last' = Call("find_replacements", shift_id, <<>>, FALSE, FALSE, res)
       /\ UNCHANGED <<db, today, forecast_db, swap_requester, sessions>>

-----------------------------------------------------------------------------
(* Shift swap handlers *)

OpenSwapStatuses == {"pending", "accepted"}

\* create_shift_swap without its check for an existing open swap.
create_shift_swap_result_no_open_check(user, requester_shift_id, requested_shift_id) ==
    LET employee == get_employee_for_user(user)
    IN IF requester_shift_id \notin DOMAIN shifts THEN "404"
       ELSE IF employee = NULL \/ shifts[requester_shift_id].employee_id # employee THEN "403"
       ELSE IF shifts[requester_shift_id].date < today THEN "400"
       ELSE IF requested_shift_id # NULL /\ requested_shift_id \notin DOMAIN shifts THEN "404"
       ELSE IF requested_shift_id # NULL /\ shifts[requested_shift_id].employee_id = employee
            THEN "400"
       ELSE "ok"

create_shift_swap_result(user, requester_shift_id, requested_shift_id) ==
    LET employee == get_employee_for_user(user)
    IN IF requester_shift_id \notin DOMAIN shifts THEN "404"
       ELSE IF employee = NULL \/ shifts[requester_shift_id].employee_id # employee THEN "403"
       ELSE IF shifts[requester_shift_id].date < today THEN "400"
       ELSE IF \E w \in DOMAIN swaps : /\ swaps[w].requester_shift_id = requester_shift_id
                                       /\ swaps[w].status \in OpenSwapStatuses THEN "400"
       ELSE IF requested_shift_id # NULL /\ requested_shift_id \notin DOMAIN shifts THEN "404"
       ELSE IF requested_shift_id # NULL /\ shifts[requested_shift_id].employee_id = employee
            THEN "400"
       ELSE "ok"

create_shift_swap(user, requester_shift_id, requested_shift_id) ==
    /\ swap_seq < MaxSwaps
    /\ LET res == create_shift_swap_result(user, requester_shift_id, requested_shift_id)
       IN IF res = "ok"
          THEN /\ swaps' = Insert(swaps, swap_seq + 1,
                                  [requester_shift_id |-> requester_shift_id,
                                   requested_shift_id |-> requested_shift_id,
                                   status |-> "pending",
                                   approved_by |-> NULL,
                                   approved_at |-> NULL])
               /\ swap_seq' = swap_seq + 1
               /\ swap_requester' = Insert(swap_requester, swap_seq + 1,
                                            get_employee_for_user(user))
               /\ last' = Call("create_shift_swap", swap_seq + 1, requester_shift_id,
                               FALSE, FALSE, res)
               /\ UNCHANGED <<schedules, shifts, schedule_seq, shift_seq, today, forecast_db,
                              sessions>>
          ELSE /\ last' = Call("create_shift_swap", NULL, requester_shift_id,
                               FALSE, FALSE, res)
               /\ UNCHANGED <<db, today, forecast_db, swap_requester, sessions>>

accept_shift_swap_result(user, swap_id, accepting_shift_id) ==
    LET employee == get_employee_for_user(user)
    IN IF swap_id \notin DOMAIN swaps THEN "404"
       ELSE IF swaps[swap_id].status # "pending" THEN "400"
       ELSE IF accepting_shift_id \notin DOMAIN shifts THEN "404"
       ELSE IF employee = NULL \/ shifts[accepting_shift_id].employee_id # employee THEN "403"
       ELSE IF shifts[swaps[swap_id].requester_shift_id].employee_id = employee THEN "400"
       ELSE IF shifts[accepting_shift_id].date < today THEN "400"
       ELSE "ok"

accept_shift_swap(user, swap_id, accepting_shift_id) ==
    LET res == accept_shift_swap_result(user, swap_id, accepting_shift_id)
    IN /\ last' = Call("accept_shift_swap", swap_id, NULL, FALSE, FALSE, res)
       /\ IF res = "ok"
          THEN /\ swaps' = [swaps EXCEPT ![swap_id].requested_shift_id = accepting_shift_id,
                                         ![swap_id].status = "accepted"]
               /\ UNCHANGED <<schedules, shifts, schedule_seq, shift_seq, swap_seq, today, forecast_db, swap_requester, sessions>>
          ELSE UNCHANGED <<db, today, forecast_db, swap_requester, sessions>>

cancel_shift_swap_result(user, swap_id) ==
    LET employee == get_employee_for_user(user)
    IN IF swap_id \notin DOMAIN swaps THEN "404"
       ELSE IF swaps[swap_id].status \notin OpenSwapStatuses THEN "400"
       ELSE IF employee = NULL
               \/ shifts[swaps[swap_id].requester_shift_id].employee_id # employee THEN "403"
       ELSE "ok"

cancel_shift_swap(user, swap_id) ==
    LET res == cancel_shift_swap_result(user, swap_id)
    IN /\ last' = Call("cancel_shift_swap", swap_id, user, FALSE, FALSE, res)
       /\ IF res = "ok"
          THEN /\ swaps' = [swaps EXCEPT ![swap_id].status = "cancelled"]
               /\ UNCHANGED <<schedules, shifts, schedule_seq, shift_seq, swap_seq, today, forecast_db, swap_requester, sessions>>
          ELSE UNCHANGED <<db, today, forecast_db, swap_requester, sessions>>

approve_shift_swap_result(swap_id) ==
    IF swap_id \notin DOMAIN swaps THEN "404"
    ELSE IF swaps[swap_id].status # "accepted" THEN "400"
    ELSE IF swaps[swap_id].requested_shift_id = NULL THEN "400"
    ELSE "ok"

\* An exchange that also puts the two shifts back to scheduled.
exchange_employees_resets_status(S, requester_shift_id, requested_shift_id) ==
    [S EXCEPT ![requester_shift_id].employee_id = S[requested_shift_id].employee_id,
              ![requester_shift_id].status = "scheduled",
              ![requested_shift_id].employee_id = S[requester_shift_id].employee_id,
              ![requested_shift_id].status = "scheduled"]

\* An exchange that writes the requester shift only.
exchange_employees_one_sided(S, requester_shift_id, requested_shift_id) ==
    [S EXCEPT ![requester_shift_id].employee_id = S[requested_shift_id].employee_id]

\* The shifts table after the exchange of approve_shift_swap: the requester
\* shift is written first, the requested shift second.
exchange_employees(S, requester_shift_id, requested_shift_id) ==
    LET requester_employee_id == S[requester_shift_id].employee_id
        requested_employee_id == S[requested_shift_id].employee_id
        S1 == [S EXCEPT ![requester_shift_id].employee_id = requested_employee_id]
    IN [S1 EXCEPT ![requested_shift_id].employee_id = requester_employee_id]

\* The writes of approve_shift_swap, shared with update_shift_swap.
approve_effect(op, swap_id, user) ==
    LET res == approve_shift_swap_result(swap_id)
    IN /\ last' = Call(op, swap_id, user, FALSE, FALSE, res)
       /\ IF res = "ok"
          THEN /\ shifts' = exchange_employees(shifts, swaps[swap_id].requester_shift_id,
                                               swaps[swap_id].requested_shift_id)
               /\ swaps' = [swaps EXCEPT ![swap_id].status = "approved",
                                         ![swap_id].approved_by = user,
                                         ![swap_id].approved_at = today]
               /\ UNCHANGED <<schedules, schedule_seq, shift_seq, swap_seq, today, forecast_db, swap_requester, sessions>>
          ELSE UNCHANGED <<db, today, forecast_db, swap_requester, sessions>>

approve_shift_swap(user, swap_id) == approve_effect("approve_shift_swap", swap_id, user)

deny_shift_swap_result(swap_id) ==
    IF swap_id \notin DOMAIN swaps THEN "404"
    ELSE IF swaps[swap_id].status \notin OpenSwapStatuses THEN "400"
    ELSE "ok"

deny_shift_swap(user, swap_id) ==
    LET res == deny_shift_swap_result(swap_id)
    IN /\ last' = Call("deny_shift_swap", swap_id, user, FALSE, FALSE, res)
       /\ IF res = "ok"
          THEN /\ swaps' = [swaps EXCEPT ![swap_id].status = "denied",
                                         ![swap_id].approved_by = user,
                                         ![swap_id].approved_at = today]
               /\ UNCHANGED <<schedules, shifts, schedule_seq, shift_seq, swap_seq, today, forecast_db, swap_requester, sessions>>
          ELSE UNCHANGED <<db, today, forecast_db, swap_requester, sessions>>

SwapStatus == {"pending", "accepted", "approved", "denied", "cancelled"}

update_shift_swap_result(swap_id) ==
    IF swap_id \notin DOMAIN swaps THEN "404"
    ELSE IF swaps[swap_id].status \notin OpenSwapStatuses THEN "400"
    ELSE "ok"

\* PATCH /{swap_id}: status approved is handed to approve_shift_swap, any
\* other status is written as given.
update_shift_swap(user, swap_id, status) ==
    LET res == update_shift_swap_result(swap_id)
    IN IF res # "ok"
       THEN /\ last' = Call("update_shift_swap", swap_id, user, FALSE, FALSE, res)
            /\ UNCHANGED <<db, today, forecast_db, swap_requester, sessions>>
       ELSE IF status = "approved"
       THEN approve_effect("update_shift_swap", swap_id, user)
       ELSE /\ last' = Call("update_shift_swap", swap_id, user, FALSE, FALSE, "ok")
            /\ swaps' = [swaps EXCEPT
                           ![swap_id].status = status,
                           ![swap_id].approved_by =
                               IF status = "denied" THEN user ELSE swaps[swap_id].approved_by,
                           ![swap_id].approved_at =
                               IF status = "denied" THEN today ELSE swaps[swap_id].approved_at]
            /\ UNCHANGED <<schedules, shifts, schedule_seq, shift_seq, swap_seq, today, forecast_db, swap_requester, sessions>>

-----------------------------------------------------------------------------
(* Schedule optimizer *)

ShiftTemplate(start_hour, end_hour, break_minutes) ==
    [start_hour |-> start_hour, end_hour |-> end_hour, break_minutes |-> break_minutes]

\* ScheduleOptimizer.SHIFT_TEMPLATES; the source indexes them from 0, this
\* sequence from 1: template index t of the source is SHIFT_TEMPLATES[t + 1].
SHIFT_TEMPLATES ==
    <<ShiftTemplate(8, 16, 30), ShiftTemplate(9, 17, 30), ShiftTemplate(10, 18, 30),
      ShiftTemplate(11, 19, 30), ShiftTemplate(12, 20, 30), ShiftTemplate(14, 22, 30),
      ShiftTemplate(8, 17, 60), ShiftTemplate(13, 22, 60)>>

TemplateIdx == {i - 1 : i \in DOMAIN SHIFT_TEMPLATES}

Template(t) == SHIFT_TEMPLATES[t + 1]

\* ShiftTemplate.working_hours, in minutes.
working_minutes(template) ==
    (template.end_hour - template.start_hour) * 60 - template.break_minutes

DayIdx == 0..6

\* _get_employees: the active employees of the store.
get_employees(store_id) ==
    {e \in Employees : EmployeeStore(e) = store_id /\ EmployeeStatus(e) = "active"}

\* _get_employee_constraints.  Hours are kept in minutes.
get_employee_constraints(S, employee, week_start) ==
    LET time_off_days == {d \in DayIdx : ApprovedTimeOff(employee, week_start + d)}
        existing_shifts == {i \in DOMAIN S : /\ S[i].employee_id = employee
                                             /\ S[i].date >= week_start
                                             /\ S[i].date <= week_start + 6}
        existing_hours == SumMinutes(S, existing_shifts)
        existing_days == Cardinality({S[i].date : i \in existing_shifts})
    IN [employee_id |-> employee,
        available_days |-> {d \in DayIdx : ~Unavailable(employee, d)} \ time_off_days,
        time_off_days |-> time_off_days,
        max_hours_remaining |-> IF max_hours_per_week * 60 - existing_hours > 0
                                THEN max_hours_per_week * 60 - existing_hours ELSE 0,
        max_days_remaining |-> IF days_on_per_week - existing_days > 0
                               THEN days_on_per_week - existing_days ELSE 0]

\* _get_applicable_shifts: the template indexes usable on day_index.
get_applicable_shifts(employee_constraints, day_index, store_id) ==
    IF day_index \notin employee_constraints.available_days THEN {}
    ELSE {t \in TemplateIdx :
            /\ ~(Template(t).start_hour < operating_start(store_id)
                 \/ Template(t).end_hour > operating_end(store_id))
            /\ ~(working_minutes(Template(t)) > employee_constraints.max_hours_remaining)}

LockedShift(employee_id, day_index, shift_template_idx) ==
    [employee_id |-> employee_id, day_index |-> day_index,
     shift_template_idx |-> shift_template_idx]

ManualOverride(employee_id, day_index, must_work, cannot_work) ==
    [employee_id |-> employee_id, day_index |-> day_index,
     must_work |-> must_work, cannot_work |-> cannot_work]

\* The decision variables created before the overrides are read: one per
\* employee, day and applicable template, as <<employee, day, template>>.
\* emp_constraints maps each employee of the store to its constraints.
decision_vars(emp_constraints, store_id) ==
    UNION {UNION {{<<e, d, t>> : t \in get_applicable_shifts(emp_constraints[e], d, store_id)}
                  : d \in DayIdx}
           : e \in DOMAIN emp_constraints}

\* The variables a locked shift adds when they are absent.
locked_vars(locked_shifts) ==
    {<<l.employee_id, l.day_index, l.shift_template_idx>> : l \in locked_shifts}

VarsOn(V, e, d) == {v \in V : v[1] = e /\ v[2] = d}

RECURSIVE SumTenths(_)
SumTenths(A) ==
    IF A = {} THEN 0
    ELSE LET v == CHOOSE x \in A : TRUE
         IN working_minutes(Template(v[3])) \div 6 + SumTenths(A \ {v})

\* The hard constraints without constraint 3 (maximum hours per week).
satisfies_without_weekly_hours(A, V0, V, emp_constraints, locked_shifts, manual_overrides) ==
    /\ \A o \in manual_overrides :
          IF o.cannot_work
          THEN A \cap VarsOn(V0, o.employee_id, o.day_index) = {}
          ELSE o.must_work =>
                  (VarsOn(V0, o.employee_id, o.day_index) # {} =>
                      A \cap VarsOn(V0, o.employee_id, o.day_index) # {})
    /\ locked_vars(locked_shifts) \subseteq A
    /\ \A e \in {v[1] : v \in V} :
          LET c == emp_constraints[e]
              mine == {v \in A : v[1] = e}
              max_days == IF c.max_days_remaining < days_on_per_week
                          THEN c.max_days_remaining ELSE days_on_per_week
          IN /\ \A d \in DayIdx : Cardinality(A \cap VarsOn(V, e, d)) <= 1
             /\ Cardinality({v[2] : v \in mine}) <= max_days

\* The hard constraints of the CP model on an assignment A (the set of
\* variables with value 1).  V0 are the variables the overrides see, V all
\* variables.
satisfies(A, V0, V, emp_constraints, locked_shifts, manual_overrides) ==
    /\ \A o \in manual_overrides :
          IF o.cannot_work
          THEN A \cap VarsOn(V0, o.employee_id, o.day_index) = {}
          ELSE o.must_work =>
                  (VarsOn(V0, o.employee_id, o.day_index) # {} =>
                      A \cap VarsOn(V0, o.employee_id, o.day_index) # {})
    /\ locked_vars(locked_shifts) \subseteq A
    /\ \A e \in {v[1] : v \in V} :
          LET c == emp_constraints[e]
              mine == {v \in A : v[1] = e}
              max_days == IF c.max_days_remaining < days_on_per_week
                          THEN c.max_days_remaining ELSE days_on_per_week
              max_hours == IF c.max_hours_remaining < max_hours_per_week * 60
                           THEN c.max_hours_remaining ELSE max_hours_per_week * 60
          IN /\ \A d \in DayIdx : Cardinality(A \cap VarsOn(V, e, d)) <= 1
             /\ Cardinality({v[2] : v \in mine}) <= max_days
             /\ SumTenths(mine) <= max_hours \div 6

\* The shift dict materialised for a variable with value 1.
generated_shift(week_start, v) ==
    [employee_id |-> v[1],
     date |-> week_start + v[2],
     start_time |-> Template(v[3]).start_hour,
     end_time |-> Template(v[3]).end_hour,
     break_minutes |-> Template(v[3]).break_minutes]

\* The result, together with the arguments of the call.
OptimizationResult(status, shift_set, week_start, locked_shifts, manual_overrides) ==
    [status |-> status, shifts |-> shift_set, week_start |-> week_start,
     locked_shifts |-> locked_shifts, manual_overrides |-> manual_overrides]

\* ScheduleOptimizer.optimize.  has_demand says whether _get_demand_slots
\* finds a slot with positive demand; solved says whether the solver ends
\* within timeout_seconds.  The solver returns any assignment that satisfies
\* the hard constraints; the result is kept in last.n.
optimize(store_id, week_start, locked_shifts, manual_overrides, has_demand, solved) ==
    LET emp_constraints == [e \in get_employees(store_id) |->
                               get_employee_constraints(shifts, e, week_start)]
        V0 == decision_vars(emp_constraints, store_id)
        V == V0 \cup locked_vars(locked_shifts)
        solutions == {A \in SUBSET V :
                        satisfies(A, V0, V, emp_constraints, locked_shifts,
                                  manual_overrides)}
        Return(status, shift_set) ==
            last' = Call("optimize", store_id,
                         OptimizationResult(status, shift_set, week_start,
                                            locked_shifts, manual_overrides),
                         FALSE, FALSE, status)
    IN /\ UNCHANGED <<db, today, forecast_db, swap_requester, sessions>>
       /\ IF store_id \notin Stores \/ get_employees(store_id) = {}
          THEN Return("error", {})
          ELSE IF ~has_demand
          THEN Return("feasible", {})
          ELSE IF \E l \in locked_shifts : l.employee_id \notin get_employees(store_id)
          THEN Return("error", {})
          ELSE IF ~solved
          THEN Return("timeout", {})
          ELSE IF solutions = {}
          THEN Return("infeasible", {})
          ELSE \E A \in solutions, status \in {"optimal", "feasible"} :
                  Return(status, {generated_shift(week_start, v) : v \in A})

-----------------------------------------------------------------------------
(* Schedule lifecycle: the inputs enumerated *)

ShiftInput(e, d, s, t, b) ==
    [employee_id |-> e, date |-> d, start_time |-> s, end_time |-> t, break_minutes |-> b]

\* a clean 8-16 shift; one on employee 1's unavailable Tuesday (warning);
\* one on employee 2's approved day off (error).
ScheduleShiftInputs ==
    {ShiftInput(1, 1, 8, 16, 30), ShiftInput(1, 2, 8, 16, 30), ShiftInput(2, 2, 8, 16, 30)}

ScheduleShiftLists == {<<a>> : a \in ScheduleShiftInputs}

\* (store, week_start) pairs of the calls.
ScheduleKeys == {<<1, 1>>, <<1, 8>>}

ScheduleIds == 1..MaxSchedules

ScheduleNext ==
    \/ \E k \in ScheduleKeys : create_schedule(k[1], k[2], ManagerUser)
    \/ \E k \in ScheduleKeys, l \in ScheduleShiftLists :
          apply_schedule(k[1], k[2], l, ManagerUser)
    \/ \E id \in ScheduleIds, v \in BOOLEAN, f \in BOOLEAN : publish_schedule(id, v, f)
    \/ \E id \in ScheduleIds : unpublish_schedule(id)
    \/ \E id \in ScheduleIds : delete_schedule(id)

ScheduleSpec == Init /\ [][ScheduleNext]_vars

-----------------------------------------------------------------------------
(* Properties of the schedule lifecycle *)

\* C1: at most one schedule with status published exists for each
\* (store, week_start).
C1_OnePublishedPerStoreWeek ==
    \A i \in DOMAIN schedules, j \in DOMAIN schedules :
        (/\ schedules[i].status = "published"
         /\ schedules[j].status = "published"
         /\ schedules[i].store_id = schedules[j].store_id
         /\ schedules[i].week_start_date = schedules[j].week_start_date) => i = j

\* The call recorded in last' was a publish of a schedule that was a
\* non-empty draft when it was made.
PublishOfNonEmptyDraft ==
    /\ last'.op = "publish_schedule"
    /\ last'.id \in DOMAIN schedules
    /\ schedules[last'.id].status = "draft"
    /\ ShiftsOfSchedule(shifts, last'.id) # {}

\* Full schedule validation would let the publish through.
ValidationAllows(schedule_id, force) ==
    LET result == validate_schedule(schedules, shifts, schedule_id)
    IN Errors(result) = {} /\ (Warnings(result) = {} \/ force)

PublishEffect ==
    /\ last'.res = "ok" =>
          /\ schedules'[last'.id].status = "published"
          /\ schedules'[last'.id].published_at = today
          /\ schedules'[last'.id].published_at # NULL
    /\ last'.res # "ok" => /\ last'.id \in DOMAIN schedules'
                          /\ schedules'[last'.id] = schedules[last'.id]

\* C5 as stated: publishing a non-empty draft succeeds exactly when full
\* schedule validation reports no error and either no warning or force is
\* set; on success the status becomes published and published_at is stamped,
\* otherwise status and published_at are unchanged.
C5_PublishExactlyWhenValid ==
    [][PublishOfNonEmptyDraft =>
         /\ (last'.res = "ok") <=> ValidationAllows(last'.id, last'.force)
         /\ PublishEffect]_vars

\* C5 amended: the same, for calls that run the validation (validate = true,
\* the default); a call with validate = false publishes a non-empty draft
\* whatever the validation would report.
C5_PublishGate ==
    [][PublishOfNonEmptyDraft =>
         /\ (last'.res = "ok") <=>
                (~last'.validate \/ ValidationAllows(last'.id, last'.force))
         /\ PublishEffect]_vars

\* C5 witness: a schedule with a warning and no error was published with
\* validate and force set.
C5_Witness ==
    /\ last = Call("publish_schedule", last.id, NULL, TRUE, TRUE, "ok")
    /\ schedules[last.id].status = "published"
    /\ schedules[last.id].published_at # NULL
    /\ Warnings(validate_schedule(schedules, shifts, last.id)) # {}

-----------------------------------------------------------------------------
(* Call-outs: the inputs enumerated *)

\* two 23-hour shifts in the week of day 1, one for employee 1 and one for
\* employee 2.
CalloutShiftLists ==
    {<<ShiftInput(1, 1, 0, 23, 0), ShiftInput(2, 2, 0, 23, 0)>>}

ShiftIds == 1..MaxShifts

SwapIds == 1..MaxSwaps

\* callout_reason: one reason text.
CalloutReasons == {1}

\* replacement_employee_id: employees 1 to 4 and an id with no row.
ReplacementIds == {1, 2, 3, 4, 7}

CalloutNext ==
    \/ \E l \in CalloutShiftLists : apply_schedule(1, 1, l, ManagerUser)
    \/ \E id \in ShiftIds, r \in CalloutReasons : mark_callout(id, r)
    \/ \E id \in ShiftIds, e \in ReplacementIds, f \in BOOLEAN : assign_replacement(id, e, f)
    \/ \E id \in ShiftIds : revert_callout(id)
    \/ \E u \in {1, 2}, id \in ShiftIds :
          swap_seq < MaxCalloutSwaps /\ create_shift_swap(u, id, NULL)
    \/ \E u \in {1, 2}, w \in 1..MaxCalloutSwaps, id \in ShiftIds :
          accept_shift_swap(u, w, id)
    \/ \E w \in 1..MaxCalloutSwaps : approve_shift_swap(ManagerUser, w)
    \/ \E w \in 1..MaxCalloutSwaps : update_shift_swap(ManagerUser, w, "approved")

CalloutSpec == Init /\ [][CalloutNext]_vars

-----------------------------------------------------------------------------
(* Properties of the call-out handlers *)

\* C7: mark_callout succeeds only on a shift in status scheduled, and then
\* sets status called_out, records the reason and the time and sets
\* original_employee_id to the current employee_id; on a shift in any other
\* status it is rejected and no shift changes.
C7_MarkCallout ==
    [][last'.op = "mark_callout" =>
         LET id == last'.id
         IN IF id \in DOMAIN shifts /\ shifts[id].status = "scheduled"
            THEN /\ last'.res = "ok"
                 /\ shifts' = [shifts EXCEPT
                                 ![id].status = "called_out",
                                 ![id].callout_reason = last'.n,
                                 ![id].callout_time = today,
                                 ![id].original_employee_id = shifts[id].employee_id]
            ELSE /\ last'.res # "ok"
                 /\ shifts' = shifts]_vars

\* a second mark_callout on a shift already called out with a reason, rejected.
C7_Witness ==
    /\ last.op = "mark_callout"
    /\ last.res = "400"
    /\ last.id \in DOMAIN shifts
    /\ shifts[last.id].status = "called_out"
    /\ shifts[last.id].callout_reason = 1
    /\ shifts[last.id].original_employee_id = shifts[last.id].employee_id

\* C8: assign_replacement succeeds only when the shift is called_out and the
\* target employee exists, is active and belongs to the shift's store; on
\* success the shift is covered, employee_id and covered_by_id are the
\* replacement and original_employee_id is the one captured at mark_callout;
\* a rejected call changes no shift.
C8_AssignReplacement ==
    [][last'.op = "assign_replacement" =>
         LET id == last'.id
             e == last'.n
         IN /\ last'.res = "ok" =>
                 /\ id \in DOMAIN shifts
                 /\ shifts[id].status = "called_out"
                 /\ e \in Employees
                 /\ EmployeeStatus(e) = "active"
                 /\ EmployeeStore(e) = schedules[shifts[id].schedule_id].store_id
                 /\ shifts'[id].status = "covered"
                 /\ shifts'[id].employee_id = e
                 /\ shifts'[id].covered_by_id = e
                 /\ shifts[id].original_employee_id # NULL
                 /\ shifts'[id].original_employee_id = shifts[id].original_employee_id
            /\ last'.res # "ok" => shifts' = shifts]_vars

\* a covered shift whose replacement differs from the employee captured at
\* mark_callout.
C8_Witness ==
    /\ last.op = "assign_replacement"
    /\ last.res = "ok"
    /\ shifts[last.id].status = "covered"
    /\ shifts[last.id].employee_id = last.n
    /\ shifts[last.id].original_employee_id # last.n

\* Projected weekly hours of the replacement, in minutes: every other shift
\* assigned to the employee in the week of the shift, whatever its status,
\* plus the shift being covered.
ProjectedWeekMinutes(S, shift_id, employee_id) ==
    LET week_start == get_week_start(S[shift_id].date)
    IN SumMinutes(S, {i \in DOMAIN S : /\ i # shift_id
                                       /\ S[i].employee_id = employee_id
                                       /\ S[i].date >= week_start
                                       /\ S[i].date <= week_start + 6})
       + DurationMinutes(S[shift_id])

\* C9: without force, assign_replacement never succeeds when the projected
\* weekly hours of the replacement, shifts of theirs still called_out
\* included, exceed 44.
C9_NoAssignOver44 ==
    [][(last'.op = "assign_replacement" /\ last'.res = "ok" /\ ~last'.force) =>
         ProjectedWeekMinutes(shifts, last'.id, last'.n) <= 44 * 60]_vars

\* C10: revert_callout succeeds only on a shift in status called_out, and
\* then returns it to scheduled with employee_id the employee captured at
\* mark_callout and the call-out metadata cleared; on a covered shift it is
\* rejected and the shift stays covered and assigned to the replacement.
C10_RevertCallout ==
    [][last'.op = "revert_callout" =>
         LET id == last'.id
         IN /\ last'.res = "ok" =>
                 /\ id \in DOMAIN shifts
                 /\ shifts[id].status = "called_out"
                 /\ shifts[id].original_employee_id # NULL
                 /\ shifts' = [shifts EXCEPT
                                 ![id].status = "scheduled",
                                 ![id].employee_id = shifts[id].original_employee_id,
                                 ![id].callout_reason = NULL,
                                 ![id].callout_time = NULL,
                                 ![id].original_employee_id = NULL,
                                 ![id].covered_by_id = NULL]
            /\ (id \in DOMAIN shifts /\ shifts[id].status = "called_out") => last'.res = "ok"
            /\ (id \in DOMAIN shifts /\ shifts[id].status = "covered") =>
                 /\ last'.res # "ok"
                 /\ shifts'[id] = shifts[id]
            /\ last'.res # "ok" => shifts' = shifts]_vars

\* revert_callout rejected on a shift that assign_replacement has covered.
C10_Witness ==
    /\ last.op = "revert_callout"
    /\ last.res = "400"
    /\ last.id \in DOMAIN shifts
    /\ shifts[last.id].status = "covered"
    /\ shifts[last.id].employee_id = shifts[last.id].covered_by_id
    /\ shifts[last.id].original_employee_id # shifts[last.id].employee_id


-----------------------------------------------------------------------------
(* Shift swaps: the inputs enumerated *)

\* one shift of employee 1 on day 1 and one of employee 2 on day 2.
SwapShiftLists ==
    {<<ShiftInput(1, 1, 8, 16, 30), ShiftInput(2, 2, 9, 17, 60)>>}

SwapUsers == {1, 2}

SwapNext ==
    \/ \E l \in SwapShiftLists : apply_schedule(1, 1, l, ManagerUser)
    \/ NextDay
    \/ \E u \in SwapUsers, rs \in ShiftIds, rq \in ShiftIds \cup {NULL} :
          create_shift_swap(u, rs, rq)
    \/ \E u \in SwapUsers, w \in SwapIds, id \in ShiftIds : accept_shift_swap(u, w, id)
    \/ \E u \in SwapUsers, w \in SwapIds : cancel_shift_swap(u, w)
    \/ \E w \in SwapIds : approve_shift_swap(ManagerUser, w)
    \/ \E w \in SwapIds : deny_shift_swap(ManagerUser, w)
    \/ \E w \in SwapIds, st \in SwapStatus : update_shift_swap(ManagerUser, w, st)

SwapSpec == Init /\ [][SwapNext]_vars

-----------------------------------------------------------------------------
(* Properties of the shift swaps *)

SwapTransitions ==
    {<<"pending", "accepted">>, <<"accepted", "approved">>,
     <<"pending", "denied">>, <<"pending", "cancelled">>,
     <<"accepted", "denied">>, <<"accepted", "cancelled">>}

\* C2: the status of a swap changes only along pending -> accepted,
\* accepted -> approved and pending|accepted -> denied|cancelled; an
\* approved, denied or cancelled swap keeps its status and an accepted swap
\* never returns to pending.
C2_SwapTransitions ==
    [][\A w \in DOMAIN swaps \cap DOMAIN swaps' :
          swaps'[w].status # swaps[w].status =>
             <<swaps[w].status, swaps'[w].status>> \in SwapTransitions]_vars

OpenSwapsOf(W, shift_id) ==
    {w \in DOMAIN W : W[w].requester_shift_id = shift_id /\ W[w].status \in OpenSwapStatuses}

\* C3: each shift is the requester shift of at most one pending or accepted
\* swap, and create_shift_swap on a shift that has one is rejected and adds
\* no swap.
C3_OneOpenSwapPerShift ==
    [][/\ \A id \in DOMAIN shifts' : Cardinality(OpenSwapsOf(swaps', id)) <= 1
       /\ (last'.op = "create_shift_swap" /\ OpenSwapsOf(swaps, last'.n) # {}) =>
             (last'.res # "ok" /\ swaps' = swaps)]_vars

\* create_shift_swap by the owner of a shift that is not in the past,
\* rejected because the shift has an open swap.
C3_Witness ==
    /\ last.op = "create_shift_swap"
    /\ last.res = "400"
    /\ last.n \in DOMAIN shifts
    /\ shifts[last.n].date >= today
    /\ Cardinality(OpenSwapsOf(swaps, last.n)) = 1

\* C4: a step that approves a swap starts from status accepted, exchanges
\* the employee_id of the requester shift and the requested shift, stamps
\* approved_by and approved_at, and changes no other field of the two shifts
\* and no other shift.
C4_ApproveExchanges ==
    [][\A w \in DOMAIN swaps \cap DOMAIN swaps' :
          (swaps[w].status # "approved" /\ swaps'[w].status = "approved") =>
             LET a == swaps[w].requester_shift_id
                 b == swaps[w].requested_shift_id
             IN /\ swaps[w].status = "accepted"
                /\ a \in DOMAIN shifts /\ b \in DOMAIN shifts /\ a # b
                /\ shifts' = [shifts EXCEPT ![a].employee_id = shifts[b].employee_id,
                                            ![b].employee_id = shifts[a].employee_id]
                /\ swaps' = [swaps EXCEPT ![w].status = "approved",
                                          ![w].approved_by = ManagerUser,
                                          ![w].approved_at = today]]_vars

\* an approved swap whose requester shift was called out before the
\* approval and now belongs to the other employee.
C4_Witness ==
    /\ last.op \in {"approve_shift_swap", "update_shift_swap"}
    /\ last.res = "ok"
    /\ last.id \in DOMAIN swaps
    /\ swaps[last.id].status = "approved"
    /\ swaps[last.id].approved_by = ManagerUser
    /\ shifts[swaps[last.id].requester_shift_id].status = "called_out"
    /\ shifts[swaps[last.id].requester_shift_id].employee_id
          # shifts[swaps[last.id].requester_shift_id].original_employee_id


-----------------------------------------------------------------------------
(* Replacement search: the inputs enumerated *)

\* The shift that needs a replacement (of employee 5, on the Monday or the
\* Tuesday, 7.5 or 23 working hours) and one other shift of the week.
ReplacementTargets ==
    {ShiftInput(5, 1, 8, 16, 30), ShiftInput(5, 2, 8, 16, 30), ShiftInput(5, 1, 0, 23, 0)}

ReplacementOthers ==
    {ShiftInput(6, 1, 8, 16, 30), ShiftInput(6, 3, 0, 23, 0),
     ShiftInput(2, 3, 8, 16, 30), ShiftInput(1, 3, 0, 23, 0)}

ReplacementShiftLists == {<<a, b>> : a \in ReplacementTargets, b \in ReplacementOthers}

ReplacementNext ==
    \/ \E l \in ReplacementShiftLists : apply_schedule(1, 1, l, ManagerUser)
    \/ \E id \in ShiftIds : mark_callout(id, 1)
    \/ \E id \in ShiftIds : assign_replacement(id, 6, TRUE)
    \/ \E id \in ShiftIds : find_replacements(id)

ReplacementSpec == Init /\ [][ReplacementNext]_vars

-----------------------------------------------------------------------------
(* Properties of the replacement search *)

\* C11: find_replacements returns every active employee of the shift's store
\* except the original employee, each once; every candidate marked available
\* precedes every candidate marked unavailable, and within each group the
\* remaining weekly hours never increase along the list.
C11_FindReplacementsOrder ==
    (last.op = "find_replacements" /\ last.res = "ok") =>
       LET c == last.n
           s == shifts[last.id]
           original == IF s.original_employee_id # NULL THEN s.original_employee_id
                       ELSE s.employee_id
       IN /\ {c[i].employee_id : i \in DOMAIN c} =
                {e \in Employees : /\ EmployeeStore(e) = schedules[s.schedule_id].store_id
                                   /\ EmployeeStatus(e) = "active"
                                   /\ e # original}
          /\ \A i, j \in DOMAIN c : i # j => c[i].employee_id # c[j].employee_id
          /\ \A i \in DOMAIN c :
                c[i].remaining_hours * 6 =
                   LET used == get_employee_week_hours(shifts, c[i].employee_id,
                                                       get_week_start(s.date))
                   IN IF used < 44 * 60 THEN 44 * 60 - used ELSE 0
          /\ \A i, j \in DOMAIN c :
                i < j => /\ ~(~c[i].is_available /\ c[j].is_available)
                         /\ c[i].is_available = c[j].is_available =>
                               c[i].remaining_hours >= c[j].remaining_hours

\* a list of three candidates in which an available candidate with fewer
\* remaining hours stands before an unavailable one with more, and two
\* available candidates have different remaining hours.
C11_Witness ==
    /\ last.op = "find_replacements"
    /\ last.res = "ok"
    /\ Len(last.n) = 3
    /\ \E i, j \in DOMAIN last.n :
          /\ i < j
          /\ last.n[i].is_available /\ ~last.n[j].is_available
          /\ last.n[i].remaining_hours < last.n[j].remaining_hours


-----------------------------------------------------------------------------
(* Schedule optimizer: the inputs enumerated *)

\* persisted shifts of employee 4 in the week of day 1: 23 h on the Friday;
\* 23 h and 15 h on the Friday and the Saturday; 7.5 h on the Monday.
OptimizerShiftLists ==
    {<<ShiftInput(4, 5, 0, 23, 0)>>,
     <<ShiftInput(4, 5, 0, 23, 0), ShiftInput(4, 6, 0, 15, 0)>>,
     <<ShiftInput(4, 1, 8, 16, 30)>>}

\* locked_shifts: none; Monday; Wednesday (approved time off); Monday twice
\* with different templates; an employee of another store.
LockedShiftInputs ==
    {{}, {LockedShift(4, 0, 0)}, {LockedShift(4, 2, 0)},
     {LockedShift(4, 0, 0), LockedShift(4, 0, 1)}, {LockedShift(1, 0, 0)}}

\* manual_overrides: none; cannot_work on Monday and on Wednesday; must_work
\* on Tuesday and on Wednesday.
ManualOverrideInputs ==
    {{}, {ManualOverride(4, 0, FALSE, TRUE)}, {ManualOverride(4, 2, FALSE, TRUE)},
     {ManualOverride(4, 1, TRUE, FALSE)}, {ManualOverride(4, 2, TRUE, FALSE)}}

OptimizeNext ==
    \/ \E l \in OptimizerShiftLists : apply_schedule(2, 1, l, ManagerUser)
    \/ \E store_id \in {2, 3}, ls \in LockedShiftInputs, mo \in ManualOverrideInputs,
          has_demand \in BOOLEAN, solved \in BOOLEAN :
          optimize(store_id, 1, ls, mo, has_demand, solved)

OptimizeSpec == Init /\ [][OptimizeNext]_vars

-----------------------------------------------------------------------------
(* Properties of the schedule optimizer *)

OptimizeReturned == last.op = "optimize" /\ last.res \in {"optimal", "feasible"}

EmittedFor(e) == {g \in last.n.shifts : g.employee_id = e}

RECURSIVE EmittedMinutes(_)
EmittedMinutes(G) ==
    IF G = {} THEN 0
    ELSE LET g == CHOOSE x \in G : TRUE
         IN DurationMinutes(g) + EmittedMinutes(G \ {g})

C13_NoShiftOnTimeOff ==
    OptimizeReturned =>
       \A g \in last.n.shifts : ~ApprovedTimeOff(g.employee_id, g.date)

\* C14: an OPTIMAL or FEASIBLE result contains, for every locked shift of the
\* input, a shift of that employee on that date with the start, end and break
\* of the template.
C14_LockedShiftsEmitted ==
    OptimizeReturned =>
       \A l \in last.n.locked_shifts :
          \E g \in last.n.shifts :
             /\ g.employee_id = l.employee_id
             /\ g.date = last.n.week_start + l.day_index
             /\ g.start_time = Template(l.shift_template_idx).start_hour
             /\ g.end_time = Template(l.shift_template_idx).end_hour
             /\ g.break_minutes = Template(l.shift_template_idx).break_minutes

\* C15: no result contains a shift for an employee on a day for which the
\* input has a cannot_work override.
C15_CannotWorkRespected ==
    last.op = "optimize" =>
       \A o \in last.n.manual_overrides :
          o.cannot_work =>
             ~\E g \in last.n.shifts :
                 g.employee_id = o.employee_id /\ g.date = last.n.week_start + o.day_index

\* C16: with two locked shifts for the same employee and day and different
\* templates the solver's verdict is INFEASIBLE and no shift is returned
\* (calls that end in ERROR or TIMEOUT set aside).
C16_ConflictingLocksInfeasible ==
    (/\ last.op = "optimize"
     /\ last.res \notin {"error", "timeout"}
     /\ \E l, m \in last.n.locked_shifts :
           /\ l.employee_id = m.employee_id
           /\ l.day_index = m.day_index
           /\ l.shift_template_idx # m.shift_template_idx)
       => (last.res = "infeasible" /\ last.n.shifts = {})


-----------------------------------------------------------------------------
(* Applying generated schedules: the inputs enumerated *)

ApplyShiftLists ==
    {<<ShiftInput(1, 1, 8, 16, 30)>>,
     <<ShiftInput(5, 1, 8, 16, 30), ShiftInput(6, 1, 9, 17, 30)>>}

\* apply_schedule for (store 1, week of day 1) while the shift ids stay
\* within MaxApplied.
apply_week(shift_list) ==
    /\ shift_seq + Len(shift_list) <= MaxApplied
    /\ apply_schedule_rows(1, 1, shift_list, ManagerUser)

ApplyNext ==
    \/ \E l \in ApplyShiftLists : apply_week(l)
    \/ \E id \in ScheduleIds : publish_schedule(id, TRUE, FALSE)
    \/ \E id \in ScheduleIds : unpublish_schedule(id)

ApplySpec == Init /\ [][ApplyNext]_vars

-----------------------------------------------------------------------------
(* Properties of apply_schedule *)

\* The five columns apply_schedule writes, for each shift of a schedule.
ShiftData(S, schedule_id) ==
    {[employee_id |-> S[i].employee_id, date |-> S[i].date,
      start_time |-> S[i].start_time, end_time |-> S[i].end_time,
      break_minutes |-> S[i].break_minutes] : i \in ShiftsOfSchedule(S, schedule_id)}

DraftsOf(C, store_id, week_start) ==
    {i \in DOMAIN C : /\ C[i].store_id = store_id
                      /\ C[i].week_start_date = week_start
                      /\ C[i].status = "draft"}

Given(shift_list) == {shift_list[k] : k \in DOMAIN shift_list}

\* The schedule the call returns is a draft of (store 1, week 1) that holds
\* exactly the given shifts, all of them new rows; an existing draft is
\* reused and no schedule row changes.
ReturnedDraftReplaced(shift_list) ==
    /\ last'.id \in DraftsOf(schedules', 1, 1)
    /\ ShiftData(shifts', last'.id) = Given(shift_list)
    /\ Cardinality(ShiftsOfSchedule(shifts', last'.id)) = Len(shift_list)
    /\ ShiftsOfSchedule(shifts', last'.id) \cap DOMAIN shifts = {}
    /\ DraftsOf(schedules, 1, 1) # {} =>
          (last'.id \in DraftsOf(schedules, 1, 1) /\ schedules' = schedules)

\* The state is the outcome of apply_schedule(store 1, week 1, shift_list).
JustApplied(shift_list) ==
    /\ last.op = "apply_schedule"
    /\ last.id \in DraftsOf(schedules, 1, 1)
    /\ ShiftData(shifts, last.id) = Given(shift_list)

\* C17: after apply_schedule the draft schedule of the (store, week) holds
\* exactly the given shifts and none of its earlier ones, an existing draft's
\* id is reused, and applying the same input again yields the same schedule
\* id and the same set of shifts.
C17_ApplyReplacesDraft ==
    [][\A l \in ApplyShiftLists :
          apply_week(l) =>
             /\ ReturnedDraftReplaced(l)
             /\ DraftsOf(schedules', 1, 1) = {last'.id}
             /\ JustApplied(l) =>
                   (last'.id = last.id /\ ShiftData(shifts', last'.id) = ShiftData(shifts, last.id))]_vars

\* What holds of every call: the returned schedule is replaced as described;
\* with a single draft for the week a replay keeps the id and the shifts.
ApplyReplacesReturnedDraft ==
    [][\A l \in ApplyShiftLists :
          apply_week(l) =>
             /\ ReturnedDraftReplaced(l)
             /\ (JustApplied(l) /\ Cardinality(DraftsOf(schedules, 1, 1)) = 1) =>
                   (last'.id = last.id /\ ShiftData(shifts', last'.id) = ShiftData(shifts, last.id))]_vars


-----------------------------------------------------------------------------
(* Properties of schedule validation *)

\* The break the table asks for a shift of the given elapsed hours.
TableBreak(elapsed) == IF elapsed >= 9 THEN 60 ELSE IF elapsed >= 8 THEN 30 ELSE 0

\* The four limits, over the rows ids of S that count for a shift of the
\* schedule: per employee at most 44 working hours, per date at most 8, at
\* most 6 distinct dates, and the table's break on every shift.
WithinLimits(S, schedule_id, ids) ==
    LET mine == ShiftsOfSchedule(S, schedule_id)
        of(e) == {i \in ids : S[i].employee_id = e}
    IN /\ \A e \in {S[i].employee_id : i \in mine} :
            /\ SumMinutes(S, of(e)) <= 44 * 60
            /\ Cardinality({S[i].date : i \in of(e)}) <= 6
       /\ \A i \in mine :
            /\ SumMinutes(S, {j \in of(S[i].employee_id) : S[j].date = S[i].date}) <= 8 * 60
            /\ S[i].break_minutes >= TableBreak(S[i].end_time - S[i].start_time)

\* C18 as stated: a schedule whose own shifts keep the four limits is
\* reported compliant.
C18_WithinLimitsCompliant ==
    \A id \in DOMAIN schedules :
        WithinLimits(shifts, id, ShiftsOfSchedule(shifts, id))
           => is_compliant(validate_schedule(schedules, shifts, id))

\* C18 amended: a schedule is reported compliant when the four limits hold
\* counting every persisted shift of its employees (of any schedule) in the
\* schedule's week, and none of its shifts falls on a date of approved time
\* off of its employee.
C18_WithinLimitsNoTimeOffCompliant ==
    \A id \in DOMAIN schedules :
        (/\ WithinLimits(shifts, id,
                         {i \in DOMAIN shifts :
                             InWeek(shifts[i].date, schedules[id].week_start_date)
                             \/ \E j \in ShiftsOfSchedule(shifts, id) :
                                   shifts[j].date = shifts[i].date})
         /\ \A i \in ShiftsOfSchedule(shifts, id) :
               ~ApprovedTimeOff(shifts[i].employee_id, shifts[i].date))
           => is_compliant(validate_schedule(schedules, shifts, id))

\* C18 witness: a schedule within the limits and free of time off passed the
\* validation of publish_schedule while the same week holds another
\* schedule.
C18_Witness ==
    /\ last = Call("publish_schedule", last.id, NULL, TRUE, FALSE, "ok")
    /\ ShiftsOfSchedule(shifts, last.id) # {}
    /\ WithinLimits(shifts, last.id, DOMAIN shifts)
    /\ \E other \in DOMAIN schedules :
          /\ other # last.id
          /\ schedules[other].week_start_date = schedules[last.id].week_start_date
          /\ ShiftsOfSchedule(shifts, other) # {}


-----------------------------------------------------------------------------
(* Per-shift validation *)

\* round(hours, 2) of a number of minutes, in hundredths of an hour.
round_hundredths(minutes) == (minutes * 100 + 30) \div 60

\* validate_shift_overlap: the rows of the employee on the date, the excluded
\* one left out, that intersect [start_time, end_time).
validate_shift_overlap(S, employee_id, target_date, start_time, end_time, exclude_shift_id) ==
    LET existing == {i \in DOMAIN S : /\ S[i].employee_id = employee_id
                                      /\ S[i].date = target_date
                                      /\ (exclude_shift_id # NULL => i # exclude_shift_id)}
    IN IF \E i \in existing : ~(end_time <= S[i].start_time \/ start_time >= S[i].end_time)
       THEN {Finding("shift_overlap", "error", employee_id, target_date)}
       ELSE {}

\* details["excess_hours"] of the daily_hours_exceeded violation, in
\* hundredths of an hour.
daily_excess_hours(S, employee_id, target_date, proposed) ==
    LET existing == {i \in DOMAIN S : S[i].employee_id = employee_id
                                      /\ S[i].date = target_date}
        total == SumMinutes(S, existing)
                 + SumSeqMinutes(SelectSeq(proposed, LAMBDA s : s.date = target_date))
    IN round_hundredths(total - max_hours_per_day * 60)

\* ComplianceEngine.validate_shift; shift_id is shift.id, NULL for a shift
\* that is not persisted.
validate_shift(S, shift, shift_id) ==
    LET week_start == get_week_start(shift.date)
    IN validate_daily_hours(S, shift.employee_id, shift.date, <<shift>>)
       \cup validate_weekly_hours(S, shift.employee_id, week_start, <<shift>>)
       \cup validate_consecutive_days(S, shift.employee_id, week_start, <<shift>>)
       \cup validate_break_requirements(shift)
       \cup validate_time_off_conflicts(shift.employee_id, shift.date)
       \cup validate_availability(shift.employee_id, shift.date)
       \cup validate_shift_overlap(S, shift.employee_id, shift.date,
                                   shift.start_time, shift.end_time, shift_id)

\* What a validating call leaves in last.n: the shift validated, its id, the
\* findings and the excess of the daily check.
Validation(S, shift, shift_id) ==
    [shift_id |-> shift_id,
     shift |-> ShiftInput(shift.employee_id, shift.date, shift.start_time,
                          shift.end_time, shift.break_minutes),
     findings |-> validate_shift(S, shift, shift_id),
     excess_hours |-> daily_excess_hours(S, shift.employee_id, shift.date, <<shift>>)]

\* POST /compliance/validate-shift: a proposed shift that is not persisted.
validate_shift_request(shift_data) ==
    /\ last' = Call("validate_shift", NULL, Validation(shifts, shift_data, NULL),
                    TRUE, FALSE, "ok")
    /\ UNCHANGED <<db, today, forecast_db, swap_requester, sessions>>

\* GET /shifts/{shift_id}/compliance: a persisted shift as it is.
check_shift_compliance(shift_id) ==
    /\ UNCHANGED <<db, today, forecast_db, swap_requester, sessions>>
    /\ IF shift_id \notin DOMAIN shifts
       THEN last' = Call("check_shift_compliance", shift_id, NULL, TRUE, FALSE, "404")
       ELSE last' = Call("check_shift_compliance", shift_id,
                         Validation(shifts, shifts[shift_id], shift_id), TRUE, FALSE, "ok")

Unset == -1

\* ShiftUpdate bodies that leave employee_id and date unset.
ShiftUpdate(start_time, end_time, break_minutes) ==
    [employee_id |-> Unset, start_time |-> start_time, end_time |-> end_time,
     break_minutes |-> break_minutes]

\* A ShiftUpdate body that sets employee_id alone.
ShiftReassign(employee_id) ==
    [employee_id |-> employee_id, start_time |-> Unset, end_time |-> Unset,
     break_minutes |-> Unset]

\* PATCH /shifts/{shift_id}.  The validation reads the row with the new
\* values: the queries return the session's own modified object.  Whether
\* the session flushes before a query (autoflush) is set outside the
\* sources at hand: with it the queries select the row by its new
\* employee_id, without it by the stored one.
update_shift(shift_id, shift_data, validate, force) ==
    IF shift_id \notin DOMAIN shifts
    THEN /\ last' = Call("update_shift", shift_id, NULL, validate, force, "404")
         /\ UNCHANGED <<db, today, forecast_db, swap_requester, sessions>>
    ELSE \E autoflush \in BOOLEAN :
         LET old == shifts[shift_id]
             set == [old EXCEPT
                       !.employee_id = IF shift_data.employee_id = Unset THEN @
                                       ELSE shift_data.employee_id,
                       !.start_time = IF shift_data.start_time = Unset THEN @
                                      ELSE shift_data.start_time,
                       !.end_time = IF shift_data.end_time = Unset THEN @
                                    ELSE shift_data.end_time,
                       !.break_minutes = IF shift_data.break_minutes = Unset THEN @
                                         ELSE shift_data.break_minutes]
             required_break == get_required_break_minutes(TotalHours(set))
             shift == IF /\ (shift_data.start_time # Unset \/ shift_data.end_time # Unset)
                         /\ set.break_minutes < required_break
                      THEN [set EXCEPT !.break_minutes = required_break]
                      ELSE set
             pending == [shifts EXCEPT ![shift_id] = shift]
             queried == IF autoflush THEN pending
                        ELSE [shifts EXCEPT
                                ![shift_id] = [shift EXCEPT !.employee_id = old.employee_id]]
             result == validate_shift(queried, shift, shift_id)
             res == IF validate /\ ~is_compliant(result) THEN "422"
                    ELSE IF validate /\ Warnings(result) # {} /\ ~force THEN "409"
                    ELSE "ok"
         IN /\ last' = Call("update_shift", shift_id,
                            IF validate THEN Validation(queried, shift, shift_id) ELSE NULL,
                            validate, force, res)
            /\ shifts' = IF res = "ok" THEN pending ELSE shifts
            /\ UNCHANGED <<schedules, swaps, schedule_seq, shift_seq, swap_seq, today, forecast_db, swap_requester, sessions>>

\* POST /shifts: the shift is validated before it is added to the session.
create_shift(schedule_id, shift_data, validate, force) ==
    IF schedule_id \notin DOMAIN schedules
    THEN /\ last' = Call("create_shift", NULL, NULL, validate, force, "404")
         /\ UNCHANGED <<db, today, forecast_db, swap_requester, sessions>>
    ELSE LET given == NewShift(schedule_id, shift_data)
             required_break == get_required_break_minutes(TotalHours(given))
             shift == IF given.break_minutes < required_break
                      THEN [given EXCEPT !.break_minutes = required_break]
                      ELSE given
             result == validate_shift(shifts, shift, NULL)
             res == IF validate /\ ~is_compliant(result) THEN "422"
                    ELSE IF validate /\ Warnings(result) # {} /\ ~force THEN "409"
                    ELSE "ok"
         IN IF res = "ok"
            THEN /\ shift_seq < MaxShifts
                 /\ shifts' = Insert(shifts, shift_seq + 1, shift)
                 /\ shift_seq' = shift_seq + 1
                 /\ last' = Call("create_shift", shift_seq + 1, NULL, validate, force, res)
                 /\ UNCHANGED <<schedules, swaps, schedule_seq, swap_seq, today, forecast_db,
                                swap_requester, sessions>>
            ELSE /\ last' = Call("create_shift", NULL, NULL, validate, force, res)
                 /\ UNCHANGED <<db, today, forecast_db, swap_requester, sessions>>

-----------------------------------------------------------------------------
(* Per-shift validation: the inputs enumerated *)

\* a 5-hour shift; a 7.5-hour shift; a 5-hour and a 3-hour shift of one day.
ValidateShiftLists ==
    {<<ShiftInput(5, 1, 8, 13, 0)>>,
     <<ShiftInput(6, 1, 8, 16, 30)>>,
     <<ShiftInput(5, 1, 8, 13, 0), ShiftInput(5, 1, 13, 16, 0)>>}

\* proposals for employee 5 on day 1: 4 hours, 3 hours, 7.5 hours.
ProposedShifts ==
    {ShiftInput(5, 1, 13, 17, 0), ShiftInput(5, 1, 13, 16, 0), ShiftInput(5, 1, 8, 16, 30)}

ShiftUpdates ==
    {ShiftUpdate(Unset, Unset, 30), ShiftUpdate(Unset, 17, Unset), ShiftUpdate(9, Unset, Unset)}

ValidateNext ==
    \/ \E l \in ValidateShiftLists : apply_schedule(1, 1, l, ManagerUser)
    \/ \E p \in ProposedShifts : validate_shift_request(p)
    \/ \E id \in ShiftIds : check_shift_compliance(id)
    \/ \E id \in ShiftIds, u \in ShiftUpdates, v \in BOOLEAN, f \in BOOLEAN :
          update_shift(id, u, v, f)

ValidateSpec == Init /\ [][ValidateNext]_vars

-----------------------------------------------------------------------------
(* Properties of per-shift validation *)

\* The last call ran validate_shift.
ShiftValidated ==
    /\ last.op \in {"validate_shift", "check_shift_compliance", "update_shift"}
    /\ last.res # "404"
    /\ last.validate

\* The employee's working minutes on the date of the validated shift: the
\* validated shift once, with the employee's other shifts of that date.
DailyMinutesOnce ==
    DurationMinutes(last.n.shift)
    + SumMinutes(shifts, {i \in DOMAIN shifts : /\ i # last.n.shift_id
                                                /\ shifts[i].employee_id = last.n.shift.employee_id
                                                /\ shifts[i].date = last.n.shift.date})

DailyHoursReported ==
    \E f \in last.n.findings : f.type = "daily_hours_exceeded" /\ f.severity = "error"

\* C19: validate_shift reports daily_hours_exceeded exactly when the
\* employee's working hours on the shift's date, the validated shift counted
\* once, exceed 8, with excess_hours the total minus 8; for a proposed shift
\* without id and for a persisted shift alike.
C19_DailyHoursCountedOnce ==
    ShiftValidated =>
       /\ DailyHoursReported <=> DailyMinutesOnce > 8 * 60
       /\ DailyHoursReported => last.n.excess_hours = ((DailyMinutesOnce - 8 * 60) * 100) \div 60

\* The same for proposed shifts without id only.
DailyHoursOfProposedShift ==
    (ShiftValidated /\ last.op = "validate_shift") =>
       /\ DailyHoursReported <=> DailyMinutesOnce > 8 * 60
       /\ DailyHoursReported => last.n.excess_hours = ((DailyMinutesOnce - 8 * 60) * 100) \div 60


-----------------------------------------------------------------------------
(* Demand forecaster.  Order counts are kept in hundredths of an order. *)

DEFAULT_LOOKBACK_WEEKS == 8
MIN_DATA_POINTS == 3

ForecastMethod == {"simple_average", "weighted_average", "exponential_smoothing", "ensemble"}

HistoricalOrder(store_id, d, hour, order_count) ==
    [store_id |-> store_id, date |-> d, hour |-> hour, order_count |-> order_count]

\* _get_historical_data: the rows of the store inside the lookback window.
get_historical_data(H, store_id) ==
    {r \in H : r.store_id = store_id /\ r.date >= today - DEFAULT_LOOKBACK_WEEKS * 7}

\* historical_data.get((day_of_week, hour), [])
data_points_of(historical_data, day_of_week, hour) ==
    {r \in historical_data : Weekday(r.date) = day_of_week /\ r.hour = hour}

RECURSIVE SumOrders(_)
SumOrders(points) ==
    IF points = {} THEN 0
    ELSE LET r == CHOOSE x \in points : TRUE
         IN r.order_count * 100 + SumOrders(points \ {r})

\* _simple_average, the prediction.
simple_average(data_points) ==
    IF data_points = {} THEN 0 ELSE SumOrders(data_points) \div Cardinality(data_points)

\* _weighted_average, the prediction: with a single data point the weights
\* cancel.  The histories enumerated hold at most one row per (day_of_week,
\* hour) of a store.
weighted_average(data_points) ==
    IF data_points = {} THEN 0 ELSE (CHOOSE r \in data_points : TRUE).order_count * 100

\* _exponential_smoothing, the prediction: the level after a single value.
exponential_smoothing(data_points) ==
    IF data_points = {} THEN 0 ELSE (CHOOSE r \in data_points : TRUE).order_count * 100

\* _ensemble_forecast, the prediction.
ensemble_forecast(data_points) ==
    (25 * simple_average(data_points) + 45 * weighted_average(data_points)
     + 30 * exponential_smoothing(data_points)) \div 100

HourlyForecast(d, hour, predicted_orders, method, data_points_used) ==
    [date |-> d, hour |-> hour, predicted_orders |-> predicted_orders,
     method |-> method, data_points_used |-> data_points_used]

forecast_hour(historical_data, target_date, hour, method) ==
    LET data_points == data_points_of(historical_data, Weekday(target_date), hour)
        predicted == CASE method = "simple_average" -> simple_average(data_points)
                       [] method = "weighted_average" -> weighted_average(data_points)
                       [] method = "exponential_smoothing" -> exponential_smoothing(data_points)
                       [] OTHER -> ensemble_forecast(data_points)
    IN HourlyForecast(target_date, hour, predicted, method, Cardinality(data_points))

RECURSIVE SumPredicted(_, _)
SumPredicted(hourly_forecasts, hours) ==
    IF hours = {} THEN 0
    ELSE LET h == CHOOSE x \in hours : TRUE
         IN hourly_forecasts[h].predicted_orders + SumPredicted(hourly_forecasts, hours \ {h})

DailyForecast(d, hourly_forecasts) ==
    [date |-> d, hourly_forecasts |-> hourly_forecasts,
     total_predicted_orders |-> SumPredicted(hourly_forecasts, DOMAIN hourly_forecasts)]

\* forecast_day: one row per hour of range(start_hour, end_hour).
forecast_day(H, store_id, target_date, method) ==
    DailyForecast(target_date,
                  [hour \in operating_start(store_id)..(operating_end(store_id) - 1) |->
                      forecast_hour(get_historical_data(H, store_id), target_date, hour, method)])

WeeklyForecast(store_id, week_start, daily_forecasts, method, warnings) ==
    [store_id |-> store_id, week_start |-> week_start,
     daily_forecasts |-> daily_forecasts, method |-> method, warnings |-> warnings]

\* forecast_week for a store that exists and a week_start that is a Monday.
forecast_week_result(H, store_id, week_start, method) ==
    LET daily_forecasts == [k \in DayIdx |-> forecast_day(H, store_id, week_start + k, method)]
        low(k) == \E h \in DOMAIN daily_forecasts[k].hourly_forecasts :
                     daily_forecasts[k].hourly_forecasts[h].data_points_used < MIN_DATA_POINTS
    IN WeeklyForecast(store_id, week_start, daily_forecasts, method,
                      (IF get_historical_data(H, store_id) = {}
                       THEN {<<"No historical data available", NULL>>} ELSE {})
                      \cup {<<"limited data", k>> : k \in {j \in DayIdx : low(j)}})

\* ForecastingService.forecast_week: ValueError for a week_start that is not
\* a Monday (line 378) or a store that does not exist (forecast_day).
forecast_week(store_id, week_start, method) ==
    /\ UNCHANGED <<db, today, forecast_db, swap_requester, sessions>>
    /\ IF Weekday(week_start) # 0 \/ store_id \notin Stores
       THEN last' = Call("forecast_week", store_id, NULL, FALSE, FALSE, "ValueError")
       ELSE last' = Call("forecast_week", store_id,
                         forecast_week_result(historical_orders, store_id, week_start, method),
                         FALSE, FALSE, "ok")

base_daily_orders == 100

\* hourly_pattern.get(hour, 0.05), in hundredths.
hourly_pattern(hour) ==
    CASE hour = 8 -> 4 [] hour = 9 -> 6 [] hour = 10 -> 8 [] hour = 11 -> 10
      [] hour = 12 -> 12 [] hour = 13 -> 10 [] hour = 14 -> 8 [] hour = 15 -> 8
      [] hour = 16 -> 9 [] hour = 17 -> 10 [] hour = 18 -> 8 [] hour = 19 -> 5
      [] hour = 20 -> 2 [] hour = 21 -> 0 [] OTHER -> 5

\* daily_pattern.get(day_of_week, 1.0), in hundredths.
daily_pattern(day_of_week) ==
    CASE day_of_week = 0 -> 90 [] day_of_week = 1 -> 95 [] day_of_week = 2 -> 100
      [] day_of_week = 3 -> 100 [] day_of_week = 4 -> 110 [] day_of_week = 5 -> 120
      [] day_of_week = 6 -> 85 [] OTHER -> 100

\* ForecastingService.generate_default_forecast for a store that exists.
generate_default_forecast(store_id, week_start) ==
    WeeklyForecast(store_id, week_start,
        [k \in DayIdx |->
            DailyForecast(week_start + k,
                [hour \in operating_start(store_id)..(operating_end(store_id) - 1) |->
                    HourlyForecast(week_start + k, hour,
                                   (base_daily_orders * daily_pattern(Weekday(week_start + k))
                                    * hourly_pattern(hour)) \div 100,
                                   "default_pattern", 0)])],
        "default_pattern", {<<"Using default pattern", NULL>>})

OrderForecast(store_id, hourly) ==
    [store_id |-> store_id, date |-> hourly.date, hour |-> hourly.hour,
     predicted_orders |-> hourly.predicted_orders]

\* save_forecast: the rows of the week are replaced by those of forecast_week.
save_forecast(F, H, store_id, week_start, method) ==
    LET weekly_forecast == forecast_week_result(H, store_id, week_start, method)
    IN {f \in F : ~(f.store_id = store_id /\ InWeek(f.date, week_start))}
       \cup UNION {{OrderForecast(store_id, weekly_forecast.daily_forecasts[k].hourly_forecasts[h])
                      : h \in DOMAIN weekly_forecast.daily_forecasts[k].hourly_forecasts}
                   : k \in DayIdx}

\* POST /forecasts/generate.
generate_forecast(store_id, week_start, method, save_to_db) ==
    IF store_id \notin Stores
    THEN /\ last' = Call("generate_forecast", store_id, NULL, FALSE, FALSE, "404")
         /\ UNCHANGED <<db, today, forecast_db, swap_requester, sessions>>
    ELSE IF Weekday(week_start) # 0
    THEN /\ last' = Call("generate_forecast", store_id, NULL, FALSE, FALSE, "400")
         /\ UNCHANGED <<db, today, forecast_db, swap_requester, sessions>>
    ELSE /\ last' = Call("generate_forecast", store_id,
                         IF {r \in historical_orders : r.store_id = store_id} = {}
                         THEN generate_default_forecast(store_id, week_start)
                         ELSE forecast_week_result(historical_orders, store_id, week_start, method),
                         FALSE, FALSE, "ok")
         /\ order_forecasts' = IF save_to_db
                               THEN save_forecast(order_forecasts, historical_orders,
                                                  store_id, week_start, method)
                               ELSE order_forecasts
         /\ UNCHANGED <<db, today, historical_orders, swap_requester, sessions>>

-----------------------------------------------------------------------------
(* Demand forecaster: the inputs enumerated *)

\* no history; a row of last Monday at 12:00 for store 1; a row of store 1
\* older than the lookback window; a row of last Tuesday at 9:00 for store 2.
Histories ==
    {{}, {HistoricalOrder(1, -6, 12, 10)}, {HistoricalOrder(1, -69, 12, 10)},
     {HistoricalOrder(2, -5, 9, 4)}}

ForecastInit ==
    /\ schedules = EmptyTable
    /\ shifts = EmptyTable
    /\ swaps = EmptyTable
    /\ schedule_seq = 0
    /\ shift_seq = 0
    /\ swap_seq = 0
    /\ today = 1
    /\ historical_orders \in Histories
    /\ order_forecasts = {}
    /\ swap_requester = EmptyTable
    /\ sessions = [p \in Sessions |-> IdleSession]
    /\ last = Call("init", NULL, NULL, FALSE, FALSE, "ok")

ForecastStores == {1, 2, 3}

ForecastWeeks == {1, 2, 8}

ForecastNext ==
    \/ \E store_id \in ForecastStores, week_start \in ForecastWeeks, method \in ForecastMethod :
          forecast_week(store_id, week_start, method)
    \/ \E store_id \in ForecastStores, week_start \in ForecastWeeks, save_to_db \in BOOLEAN :
          generate_forecast(store_id, week_start, "ensemble", save_to_db)

ForecastSpec == ForecastInit /\ [][ForecastNext]_vars

-----------------------------------------------------------------------------
(* Properties of the demand forecaster *)

\* The weekly forecast w of the store is the cold-start forecast: seven
\* days, one row per operating hour, each row tagged default_pattern with no
\* data points and the prediction multiplier x 100 x hourly share (in
\* hundredths), and a warning on the week.
ColdStartForecast(w, store_id) ==
    /\ DOMAIN w.daily_forecasts = 0..6
    /\ \A k \in 0..6 :
          LET day == w.daily_forecasts[k]
          IN /\ day.date = w.week_start + k
             /\ DOMAIN day.hourly_forecasts
                   = operating_start(store_id)..(operating_end(store_id) - 1)
             /\ \A h \in DOMAIN day.hourly_forecasts :
                   /\ day.hourly_forecasts[h].method = "default_pattern"
                   /\ day.hourly_forecasts[h].data_points_used = 0
                   /\ day.hourly_forecasts[h].predicted_orders
                         = daily_pattern(Weekday(day.date)) * hourly_pattern(h)
    /\ w.warnings # {}

\* C20: for a store with no historical order rows forecast_week returns the
\* cold-start forecast: seven daily forecasts, one row per operating hour,
\* every row tagged default_pattern with data_points_used 0 and the
\* default-pattern prediction, and a warning on the weekly result.
C20_ForecastWeekColdStart ==
    (/\ last.op = "forecast_week"
     /\ last.res = "ok"
     /\ ~\E r \in historical_orders : r.store_id = last.id)
       => ColdStartForecast(last.n, last.id)

\* The same of POST /forecasts/generate.
GenerateForecastColdStart ==
    (/\ last.op = "generate_forecast"
     /\ last.res = "ok"
     /\ ~\E r \in historical_orders : r.store_id = last.id)
       => ColdStartForecast(last.n, last.id)

-----------------------------------------------------------------------------
(* Who may cancel a swap *)

\* C21: a cancel_shift_swap call succeeds only when its caller is the
\* employee whose create_shift_swap call made the swap, whatever happened to
\* the owner of the requester shift in between.
C21_CancelOnlyByRequester ==
    [][(last'.op = "cancel_shift_swap" /\ last'.res = "ok") =>
          get_employee_for_user(last'.n) = swap_requester[last'.id]]_vars

\* The cancel that follows the owner of the requester shift: it succeeds for
\* the employee who owned the shift when the call was made.
CancelByShiftOwner ==
    [][(last'.op = "cancel_shift_swap" /\ last'.res = "ok") =>
          get_employee_for_user(last'.n)
             = shifts[swaps[last'.id].requester_shift_id].employee_id]_vars

-----------------------------------------------------------------------------
(* Swap approval and the compliance engine: the inputs enumerated *)

\* employee 1 on the Tuesday of employee 2's approved time off and employee 2
\* on the Monday; employees 5 and 6 on the Monday and the Tuesday.
SwapGateShiftLists ==
    {<<ShiftInput(1, 2, 8, 16, 30), ShiftInput(2, 1, 8, 16, 30)>>,
     <<ShiftInput(5, 1, 8, 16, 30), ShiftInput(6, 2, 8, 16, 30)>>}

SwapGateUsers == {1, 2, 5, 6}

SwapGateNext ==
    \/ \E l \in SwapGateShiftLists : apply_schedule(1, 1, l, ManagerUser)
    \/ \E u \in SwapGateUsers, rs \in ShiftIds : create_shift_swap(u, rs, NULL)
    \/ \E u \in SwapGateUsers, w \in SwapIds, id \in ShiftIds : accept_shift_swap(u, w, id)
    \/ \E w \in SwapIds : approve_shift_swap(ManagerUser, w)
    \/ \E w \in SwapIds : deny_shift_swap(ManagerUser, w)

SwapGateSpec == Init /\ [][SwapGateNext]_vars

-----------------------------------------------------------------------------
(* Properties of swap approval *)

\* The error findings of validate_shift for the persisted shift id of table
\* S, the shift counted once.
ShiftErrors(S, id) == Errors(validate_shift(Remove(S, {id}), S[id], NULL))

\* The error findings of the exchanged assignment of swap w.
ExchangeErrors(w) ==
    LET a == swaps[w].requester_shift_id
        b == swaps[w].requested_shift_id
        exchanged == exchange_employees(shifts, a, b)
    IN ShiftErrors(exchanged, a) \cup ShiftErrors(exchanged, b)

\* C22: a swap is approved only if the exchanged assignment has no
\* error-severity finding; an approve call on an accepted swap whose
\* exchange has one is rejected and leaves the shifts as they are.
C22_ApproveOnlyCompliant ==
    [][/\ \A w \in DOMAIN swaps \cap DOMAIN swaps' :
             (swaps[w].status # "approved" /\ swaps'[w].status = "approved") =>
                ExchangeErrors(w) = {}
       /\ (/\ last'.op = "approve_shift_swap"
           /\ last'.id \in DOMAIN swaps
           /\ swaps[last'.id].status = "accepted"
           /\ ExchangeErrors(last'.id) # {}) =>
              (last'.res # "ok" /\ shifts' = shifts)]_vars

\* approve_shift_swap looks at the status of the swap and nothing else: on
\* an accepted swap it succeeds and exchanges the owners.
ApproveAcceptedSucceeds ==
    [][(/\ last'.op = "approve_shift_swap"
        /\ last'.id \in DOMAIN swaps
        /\ swaps[last'.id].status = "accepted") =>
           /\ last'.res = "ok"
           /\ shifts' = exchange_employees(shifts, swaps[last'.id].requester_shift_id,
                                            swaps[last'.id].requested_shift_id)]_vars

-----------------------------------------------------------------------------
(* Must-work overrides *)

\* The returned shifts cover the must_work override o.
MustWorkCovered(o) ==
    \E g \in last.n.shifts :
        g.employee_id = o.employee_id /\ g.date = last.n.week_start + o.day_index

\* C23: when optimize returns OPTIMAL or FEASIBLE, every must_work override
\* has a returned shift for its employee on its day, also when the employee
\* has no eligible template on that day.
C23_MustWorkSatisfied ==
    OptimizeReturned =>
       \A o \in last.n.manual_overrides : o.must_work => MustWorkCovered(o)

\* The same for the overrides whose employee has an eligible template on
\* the day, in the results that contain a shift (the calls that went through
\* the solver).
MustWorkSatisfiedWhenEligible ==
    (OptimizeReturned /\ last.n.shifts # {}) =>
       \A o \in last.n.manual_overrides :
          (/\ o.must_work
           /\ get_applicable_shifts(
                  get_employee_constraints(shifts, o.employee_id, last.n.week_start),
                  o.day_index, last.id) # {}) => MustWorkCovered(o)

-----------------------------------------------------------------------------
(* Schedule-level validation *)

\* ComplianceResult of validate_schedule, as check_schedule_compliance
\* returns it.
ComplianceResult(findings) ==
    [is_compliant |-> is_compliant(findings), findings |-> findings]

\* GET /schedules/{schedule_id}/compliance; the result is kept in last.n.
check_schedule_compliance(schedule_id) ==
    /\ UNCHANGED <<db, today, forecast_db, swap_requester, sessions>>
    /\ IF schedule_id \notin DOMAIN schedules
       THEN last' = Call("check_schedule_compliance", schedule_id, NULL, TRUE, FALSE, "404")
       ELSE last' = Call("check_schedule_compliance", schedule_id,
                         ComplianceResult(validate_schedule(schedules, shifts, schedule_id)),
                         TRUE, FALSE, "ok")

\* one employee with two intersecting shifts on the Monday (7 hours in all);
\* with two shifts that touch at 12:00; two employees at the same hours; one
\* employee with 12 hours on the Monday in two intersecting shifts.
OverlapShiftLists ==
    {<<ShiftInput(5, 1, 8, 12, 0), ShiftInput(5, 1, 11, 14, 0)>>,
     <<ShiftInput(5, 1, 8, 12, 0), ShiftInput(5, 1, 12, 15, 0)>>,
     <<ShiftInput(5, 1, 8, 12, 0), ShiftInput(6, 1, 8, 12, 0)>>,
     <<ShiftInput(5, 1, 8, 15, 0), ShiftInput(5, 1, 10, 15, 0)>>}

OverlapNext ==
    \/ \E l \in OverlapShiftLists : apply_week(l)
    \/ \E id \in ScheduleIds : check_schedule_compliance(id)
    \/ \E id \in ScheduleIds, f \in BOOLEAN : publish_schedule(id, TRUE, f)
    \/ \E id \in ScheduleIds : unpublish_schedule(id)

OverlapSpec == Init /\ [][OverlapNext]_vars

-----------------------------------------------------------------------------
(* Properties of schedule-level validation *)

\* Two shifts of the schedule have the same employee and date and
\* intersecting [start, end) intervals.
HasOverlap(S, schedule_id) ==
    \E i, j \in ShiftsOfSchedule(S, schedule_id) :
        /\ i # j
        /\ S[i].employee_id = S[j].employee_id
        /\ S[i].date = S[j].date
        /\ S[i].start_time < S[j].end_time
        /\ S[j].start_time < S[i].end_time

ScheduleChecked == last.op = "check_schedule_compliance" /\ last.res = "ok"

OneFindingPerKey(findings) ==
    \A f, g \in findings :
        (f.type = g.type /\ f.employee_id = g.employee_id /\ f.date = g.date) => f = g

\* C24: validate_schedule reports a shift_overlap error, and is_compliant
\* false, whenever two shifts of the schedule of one employee on one date
\* intersect; its result has at most one finding per (type, employee, date).
C24_OverlapReported ==
    ScheduleChecked =>
       /\ HasOverlap(shifts, last.id) =>
             /\ \E f \in last.n.findings : f.type = "shift_overlap" /\ f.severity = "error"
             /\ ~last.n.is_compliant
       /\ OneFindingPerKey(last.n.findings)

\* The deduplication alone.
ScheduleFindingsDeduplicated ==
    ScheduleChecked => OneFindingPerKey(last.n.findings)

\* validate_schedule never reports a shift_overlap finding.
NoOverlapFindingFromSchedule ==
    ScheduleChecked => \A f \in last.n.findings : f.type # "shift_overlap"

-----------------------------------------------------------------------------
(* Called-out shifts and their owner *)

\* C25: in every reachable state a shift with status called_out has
\* employee_id equal to its original_employee_id.
C25_CalledOutStaysOnOriginal ==
    \A id \in DOMAIN shifts :
        shifts[id].status = "called_out" =>
           shifts[id].employee_id = shifts[id].original_employee_id

\* mark_callout itself leaves the shift on its employee: right after a
\* successful call the two columns agree.
MarkCalloutKeepsOwner ==
    (last.op = "mark_callout" /\ last.res = "ok") =>
        shifts[last.id].employee_id = shifts[last.id].original_employee_id

-----------------------------------------------------------------------------
(* apply_schedule, statement by statement *)

\* Each request has its own Session, hence its own transaction.  The tables
\* hold the committed rows.  The engine is PostgreSQL at its default level,
\* READ COMMITTED: a statement sees the rows committed when it starts and the
\* changes of its own transaction; a DELETE waits for a transaction that has
\* deleted one of its rows and skips the rows that are gone when it resumes.

\* The draft query (.first()).
apply_query(p, store_id, week_start, shift_list, created_by) ==
    /\ sessions[p].pc = "idle"
    /\ LET drafts == {i \in DOMAIN schedules :
                        /\ schedules[i].store_id = store_id
                        /\ schedules[i].week_start_date = week_start
                        /\ schedules[i].status = "draft"}
       IN \E sch \in (IF drafts = {} THEN {NULL} ELSE drafts) :
             sessions' = [sessions EXCEPT ![p] =
                             [IdleSession EXCEPT !.pc = "queried",
                                                 !.store_id = store_id,
                                                 !.week_start = week_start,
                                                 !.shift_list = shift_list,
                                                 !.created_by = created_by,
                                                 !.schedule = sch]]
    /\ UNCHANGED <<db, today, forecast_db, swap_requester, last>>

\* query(Shift).filter(schedule_id == schedule.id).delete() starts: the rows
\* the statement sees.
apply_delete_begin(p) ==
    /\ sessions[p].pc = "queried"
    /\ sessions[p].schedule # NULL
    /\ sessions' = [sessions EXCEPT
                       ![p].pc = "deleting",
                       ![p].targets = ShiftsOfSchedule(shifts, sessions[p].schedule)]
    /\ UNCHANGED <<db, today, forecast_db, swap_requester, last>>

\* The DELETE ends, once no other open transaction holds one of its rows.
apply_delete_end(p) ==
    /\ sessions[p].pc = "deleting"
    /\ \A q \in Sessions \ {p} : sessions[q].deleted \cap sessions[p].targets = {}
    /\ sessions' = [sessions EXCEPT
                       ![p].pc = "ready",
                       ![p].deleted = sessions[p].targets \cap DOMAIN shifts]
    /\ UNCHANGED <<db, today, forecast_db, swap_requester, last>>

\* No draft was found: db.add(schedule); db.flush().  The id comes from the
\* sequence at once, the row is visible to others after the commit.
apply_flush(p) ==
    /\ sessions[p].pc = "queried"
    /\ sessions[p].schedule = NULL
    /\ schedule_seq < MaxSchedules
    /\ schedule_seq' = schedule_seq + 1
    /\ sessions' = [sessions EXCEPT ![p].pc = "ready",
                                    ![p].schedule = schedule_seq + 1,
                                    ![p].created = TRUE]
    /\ UNCHANGED <<schedules, shifts, swaps, shift_seq, swap_seq, today, forecast_db,
                   swap_requester, last>>

\* db.commit(): the shifts added to the session are inserted and the
\* transaction commits.
apply_commit(p) ==
    LET t == sessions[p]
    IN /\ t.pc = "ready"
       /\ shift_seq + Len(t.shift_list) <= MaxApplied
       /\ schedules' = IF t.created
                       THEN Insert(schedules, t.schedule,
                                   [store_id |-> t.store_id,
                                    week_start_date |-> t.week_start,
                                    status |-> "draft",
                                    created_by |-> t.created_by,
                                    published_at |-> NULL])
                       ELSE schedules
       /\ shifts' = InsertShifts(Remove(shifts, t.deleted), t.schedule, shift_seq,
                                 t.shift_list)
       /\ swaps' = SwapsAfterShiftDelete(swaps, t.deleted)
       /\ shift_seq' = shift_seq + Len(t.shift_list)
       /\ last' = Call("apply_schedule", t.schedule, t.store_id, FALSE, FALSE, "ok")
       /\ sessions' = [sessions EXCEPT ![p] = IdleSession]
       /\ UNCHANGED <<schedule_seq, swap_seq, today, forecast_db, swap_requester>>

ConcurrentShiftLists ==
    {<<ShiftInput(5, 1, 8, 16, 30)>>, <<ShiftInput(6, 1, 9, 17, 60)>>}

ConcurrentApplyNext ==
    \/ \E p \in Sessions, l \in ConcurrentShiftLists : apply_query(p, 1, 1, l, ManagerUser)
    \/ \E p \in Sessions : apply_delete_begin(p)
    \/ \E p \in Sessions : apply_delete_end(p)
    \/ \E p \in Sessions : apply_flush(p)
    \/ \E p \in Sessions : apply_commit(p)

ConcurrentApplySpec == Init /\ [][ConcurrentApplyNext]_vars

-----------------------------------------------------------------------------
(* Properties of concurrent apply_schedule calls *)

Quiescent == \A p \in Sessions : sessions[p].pc = "idle"

\* C26: once the concurrent apply_schedule calls for (store 1, week 1) have
\* committed, there is a single draft schedule for the (store, week) and its
\* shifts are exactly the shift list of one of the calls.
C26_ConcurrentApplyOneDraft ==
    (Quiescent /\ last.op = "apply_schedule") =>
       /\ Cardinality(DraftsOf(schedules, 1, 1)) = 1
       /\ \A sch \in DraftsOf(schedules, 1, 1) :
             /\ \E l \in ConcurrentShiftLists : ShiftData(shifts, sch) = Given(l)
             /\ Cardinality(ShiftsOfSchedule(shifts, sch)) = 1

\* Within one call the delete and the inserts are one transaction: no state
\* shows a draft emptied by a call that has not committed.
ApplyCommitsAtOnce ==
    \A sch \in DOMAIN schedules : ShiftsOfSchedule(shifts, sch) # {}

-----------------------------------------------------------------------------
(* Optimizer objective: the coverage component *)

MaxCovering == 4   \* shift variables that cover one demand slot

\* int(data["required"]) of a requirement given in tenths of a picker.
int_required(required_tenths) == required_tenths \div 10

\* The terms of coverage_score for one slot, summed under the values the
\* solver gives the variables: assigned[i] is the value (0 or 1) of the i-th
\* covering variable in the order of enumeration.
RECURSIVE coverage_terms(_, _, _)
coverage_terms(assigned, required, i) ==
    IF i > Len(assigned) THEN 0
    ELSE (IF i - 1 < required THEN assigned[i] * 100 ELSE assigned[i] * (-10))
         + coverage_terms(assigned, required, i + 1)

coverage_score(assigned, required_tenths) ==
    coverage_terms(assigned, int_required(required_tenths), 1)

\* The slot's term of the objective for one assignment; kept in last.n.
slot_coverage(assigned, required_tenths) ==
    /\ last' = Call("slot_coverage", NULL,
                    [required |-> required_tenths, assigned |-> assigned,
                     score |-> coverage_score(assigned, required_tenths)],
                    FALSE, FALSE, "ok")
    /\ UNCHANGED <<db, today, forecast_db, swap_requester, sessions>>

\* required_pickers of a slot, in tenths: 0.5, 1.0, 1.5, 2.0, 3.0
RequiredPickers == {5, 10, 15, 20, 30}

CoveringValues == UNION {[1..n -> {0, 1}] : n \in 1..MaxCovering}

ObjectiveNext ==
    \E assigned \in CoveringValues, r \in RequiredPickers : slot_coverage(assigned, r)

ObjectiveSpec == Init /\ [][ObjectiveNext]_vars

-----------------------------------------------------------------------------
(* Properties of the coverage component *)

RECURSIVE SumSeq(_)
SumSeq(q) == IF q = <<>> THEN 0 ELSE Head(q) + SumSeq(Tail(q))

Min(a, b) == IF a < b THEN a ELSE b

Max(a, b) == IF a > b THEN a ELSE b

\* 100 for each assignment up to floor(r), -10 for each one beyond, for k
\* assignments.
CountedScore(k, required_tenths) ==
    100 * Min(k, required_tenths \div 10) - 10 * Max(0, k - required_tenths \div 10)

\* C27: the slot's contribution to the objective is
\* 100*min(k, floor(r)) - 10*max(0, k - floor(r)) for k covering shifts
\* assigned, whichever of the covering variables are the assigned ones.
C27_CoverageByCount ==
    last.op = "slot_coverage" =>
       last.n.score = CountedScore(SumSeq(last.n.assigned), last.n.required)

\* The same when the assigned variables are the first ones enumerated.
CoverageByCountOfPrefix ==
    (/\ last.op = "slot_coverage"
     /\ \A i, j \in DOMAIN last.n.assigned :
           i < j => last.n.assigned[i] >= last.n.assigned[j]) =>
       last.n.score = CountedScore(SumSeq(last.n.assigned), last.n.required)

-----------------------------------------------------------------------------
(* The life of a shift: the inputs enumerated *)

LifecycleShiftLists == {<<ShiftInput(1, 1, 8, 16, 30)>>}

\* POST /shifts bodies: employee 2 on the Monday.
LifecycleShiftCreates == {ShiftInput(2, 1, 9, 17, 30)}

\* PATCH /shifts bodies: the shift handed to employee 5.
LifecycleShiftUpdates == {ShiftReassign(5)}

\* Employee 1 asks for swaps of shift 1, employee 2 accepts them.
LifecycleNext ==
    \/ \E l \in LifecycleShiftLists : apply_schedule(1, 1, l, ManagerUser)
    \/ \E sid \in ScheduleIds, sd \in LifecycleShiftCreates : create_shift(sid, sd, TRUE, FALSE)
    \/ \E id \in ShiftIds, u \in LifecycleShiftUpdates : update_shift(id, u, FALSE, FALSE)
    \/ \E id \in ShiftIds, r \in CalloutReasons : mark_callout(id, r)
    \/ \E id \in ShiftIds : assign_replacement(id, 2, FALSE)
    \/ \E id \in ShiftIds : revert_callout(id)
    \/ swap_seq < MaxCalloutSwaps /\ create_shift_swap(1, 1, NULL)
    \/ \E w \in 1..MaxCalloutSwaps, id \in ShiftIds : accept_shift_swap(2, w, id)
    \/ \E w \in 1..MaxCalloutSwaps : approve_shift_swap(ManagerUser, w)

LifecycleSpec == Init /\ [][LifecycleNext]_vars

-----------------------------------------------------------------------------
(* Properties of the life of a shift *)

ShiftStatusTransitions ==
    {<<"scheduled", "called_out", "mark_callout">>,
     <<"called_out", "covered", "assign_replacement">>,
     <<"called_out", "scheduled", "revert_callout">>}

\* C28: the status of a shift changes only by scheduled -> called_out
\* (mark_callout), called_out -> covered (assign_replacement) and
\* called_out -> scheduled (revert_callout); a covered shift stays covered,
\* a new shift is scheduled, and no shift ever has status no_show.
C28_ShiftStatusTransitions ==
    [][/\ \A id \in DOMAIN shifts \cap DOMAIN shifts' :
             /\ shifts'[id].status # shifts[id].status =>
                   /\ <<shifts[id].status, shifts'[id].status, last'.op>>
                         \in ShiftStatusTransitions
                   /\ last'.id = id
             /\ shifts[id].status = "covered" => shifts'[id].status = "covered"
       /\ \A id \in DOMAIN shifts' :
             /\ shifts'[id].status # "no_show"
             /\ id \notin DOMAIN shifts => shifts'[id].status = "scheduled"]_vars

\* a covered shift, handed to another employee by a shift update, that
\* revert_callout refuses to touch.
C28_Witness ==
    /\ last.op = "revert_callout"
    /\ last.res = "400"
    /\ last.id \in DOMAIN shifts
    /\ shifts[last.id].status = "covered"
    /\ shifts[last.id].employee_id # shifts[last.id].covered_by_id

\* C29: original_employee_id is set exactly on the shifts that are
\* called_out or covered, and covered_by_id exactly on the covered ones.
C29_CalloutColumns ==
    \A id \in DOMAIN shifts :
        /\ (shifts[id].original_employee_id # NULL)
              <=> (shifts[id].status \in {"called_out", "covered"})
        /\ (shifts[id].covered_by_id # NULL) <=> (shifts[id].status = "covered")

\* a shift called out and reverted, beside a covered shift.
C29_Witness ==
    /\ last.op = "revert_callout"
    /\ last.res = "ok"
    /\ shifts[last.id].status = "scheduled"
    /\ \E id \in DOMAIN shifts :
          /\ shifts[id].status = "covered"
          /\ shifts[id].covered_by_id # NULL
          /\ shifts[id].original_employee_id # NULL

-----------------------------------------------------------------------------
(* published_at *)

\* C30: in every reachable state a schedule's published_at is set exactly
\* when its status is published.
C30_PublishedAtIffPublished ==
    \A id \in DOMAIN schedules :
        (schedules[id].published_at # NULL) <=> (schedules[id].status = "published")

\* a schedule published and unpublished again, beside a published one.
C30_Witness ==
    /\ last.op = "unpublish_schedule"
    /\ last.res = "ok"
    /\ schedules[last.id].status = "draft"
    /\ schedules[last.id].published_at = NULL
    /\ \E id \in DOMAIN schedules :
          schedules[id].status = "published" /\ schedules[id].published_at # NULL

====
